---- MODULE Spec2Model ----
(***************************************************************************)
(* Verification model of the postsais content-operations tool.             *)
(*                                                                         *)
(* Part 1: the batch queue engine of App (src/services/sheets.ts:98-535):  *)
(* the React state queue / isProcessingBatch / batchToken / isDemoMode /   *)
(* batchProgress / articles, the batch worker effect (processNextItem),    *)
(* handleSheetImport and the BatchStatus close button.                     *)
(*                                                                         *)
(* React is modelled as follows.  A state variable holds the value of the  *)
(* latest setState call (functional updates are applied in call order).    *)
(* effectDue says that a dependency of the worker effect changed and the   *)
(* effect has not run yet; BatchWorkerEffect is the commit that runs it,   *)
(* and the values it reads are the closure values of processNextItem.      *)
(* A pipeline suspended at an await is a record of tasks, carrying the     *)
(* closure values (item, queue.length, isDemoMode, batchToken) it was      *)
(* started with.                                                           *)
(*                                                                         *)
(* Part 2: fetchWpWithFallback (src/services/wordpress.ts:236-322).        *)
(* Part 3: uploadWpMedia (src/services/wordpress.ts:336-390).              *)
(* Part 4: the generation client (src/unnamed/part_007) and the key list   *)
(* of the Settings screen (src/components/Settings.tsx).                   *)
(* Part 5: the two publishers (src/components/WordpressPublisher.tsx,      *)
(* src/components/BulkPostManager.tsx) and the site list of Settings.      *)
(* A component's state is initialised when it is mounted and dropped when  *)
(* App renders another screen; a publish pipeline suspended at an await    *)
(* is a record of pubTasks carrying the closure values of handlePublish.   *)
(* pubOp and pubRequest record the latest handlePublish call and the       *)
(* latest service call, pubThrown the message of the latest failure.      *)
(* Part 6: the pure functions updateSheetCell (src/services/sheets.ts:     *)
(* 26-52) and cleanWpUrl (src/services/wordpress.ts:204-219), each applied *)
(* to inputs of bounded sets; strings are sequences of their pieces.       *)
(***************************************************************************)
EXTENDS Integers, Sequences, FiniteSets, TLC

\* ---------------------------------------------------------------- bounds
\* number of job ids that imports may allocate over a whole behaviour
MaxJobs == 4
\* number of rows of an imported (non-demo) sheet
MaxRows == 3
\* number of keys of the stored key list and of the Settings key list
MaxKeys == 2
\* number of site records created over a whole behaviour
MaxSites == 2
\* number of drafts of the bulk publisher
MaxDrafts == 1
\* largest index of a row of the data array handed to updateSheetCell
MaxRowIndex == 9
\* number of pieces of a typed site URL after its host
MaxPathLen == 3

\* the blank lines between two blocks of a markdown document: at most
MaxBlankLines == 1

\* handleSaveToDrive calls that are suspended at the same time: at most
MaxSaves == 1

\* fetchWpCategories calls that are pending at the same time: at most
MaxCatRequests == 2

\* ------------------------------------------------------------- constants
\* the cool-down is waited when the closure's queue.length exceeds this
CoolDownMinQueue == 1
\* number of delivery strategies of fetchWpWithFallback
NumTiers == 4

VARIABLES
    queue,              \* useState<QueueItem[]>            (sheets.ts:121)
    isProcessingBatch,  \* useState(false)                  (sheets.ts:122)
    batchToken,         \* useState<string | null>          (sheets.ts:123)
    batchProgress,      \* useState<BatchProgress>          (sheets.ts:124)
    articles,           \* article history, newest first    (sheets.ts:102)
    isDemoMode,         \* useState(false)                  (sheets.ts:114)
    effectDue,          \* a dependency of the worker effect changed
    tasks,              \* pipelines suspended at an await, oldest first
    nextId,             \* generateId(): ids handed out so far
    started,            \* ids of the jobs whose pipeline was started, in order
    failed,             \* ids of the jobs whose pipeline reached the catch block
    lastImport,         \* the latest import: its rows, its jobs, whether the engine was idle
    wpPc,               \* fetchWpWithFallback: 0 not called, k next tier, 5 returned
    wpCalls,            \* fetchWpWithFallback: requests issued so far
    wpLastError,        \* fetchWpWithFallback: lastError
    wpResult,           \* fetchWpWithFallback: value returned or error thrown
    mediaPc,            \* uploadWpMedia: 0 not called, k next tier, 5 returned
    mediaCalls,         \* uploadWpMedia: requests issued so far
    mediaResult,        \* uploadWpMedia: value returned or error thrown
    storedKeys,         \* localStorage 'guestpost_gemini_keys', parsed
    envKey,             \* process.env.API_KEY, "" when the build has none
    geminiKeys,         \* Settings: useState<string[]>       (Settings.tsx:16)
    genPc,              \* generateGuestPostContent: "idle", "running", "done"
    genKeys,            \* generateGuestPostContent: apiKeys
    genIdx,             \* generateGuestPostContent: position of the for loop
    genAttempts,        \* generateGuestPostContent: provider requests so far
    genLastError,       \* generateGuestPostContent: lastError
    genResult,          \* generateGuestPostContent: value returned or error thrown
    mode,               \* App: useState<AppMode>(AppMode.SINGLE) (sheets.ts:99)
    storedSites,        \* localStorage 'guestpost_wp_sites': ids of the records
    wpSites,            \* Settings: useState<WordpressSite[]>
    nextSiteId,         \* site records created so far
    sites,              \* `sites` of the mounted publisher
    selectedSiteId,     \* WordpressPublisher: selectedSiteId, 0 for ''
    title,              \* WordpressPublisher: title
    content,            \* WordpressPublisher: content
    imageFile,          \* WordpressPublisher: an image is attached
    error,              \* WordpressPublisher: error
    publishingStatus,   \* WordpressPublisher: publishingStatus
    drafts,             \* BulkPostManager: drafts
    pubTasks,           \* publish pipelines suspended at an await
    pubOp,              \* the latest handlePublish call: what it found, showed and did
    pubRequest,         \* the latest uploadWpMedia / createWpPost call
    pubThrown,          \* message thrown at the latest pipeline end, "" if it returned
    sheetPut,           \* the latest updateSheetCell call: arguments, request, outcome
    cleanUrl,           \* the latest cleanWpUrl call: argument and result
    roundTrip,          \* the latest markdownToHtml / htmlToMarkdown round trip
    saveTasks,          \* handleSaveToDrive calls suspended at their upload or timer
    savedLinks,         \* ids of the history articles that carry an export link
    categories,         \* WordpressPublisher: categories
    selectedCategoryId, \* WordpressPublisher: selectedCategoryId
    isLoadingCategories, \* WordpressPublisher: isLoadingCategories
    catRequests,        \* fetchCats runs suspended at fetchWpCategories, oldest first
    catPost             \* the latest createWpPost of the publisher: site and categories

batchVars == <<queue, isProcessingBatch, batchToken, batchProgress, articles,
               isDemoMode, effectDue, tasks, nextId, started, failed, lastImport>>
wpVars == <<wpPc, wpCalls, wpLastError, wpResult>>
mediaVars == <<mediaPc, mediaCalls, mediaResult>>
vars == <<queue, isProcessingBatch, batchToken, batchProgress, articles,
          isDemoMode, effectDue, tasks, nextId, started, failed, lastImport,
          wpPc, wpCalls, wpLastError, wpResult,
          mediaPc, mediaCalls, mediaResult,
          storedKeys, envKey, geminiKeys,
          genPc, genKeys, genIdx, genAttempts, genLastError, genResult,
          mode, storedSites, wpSites, nextSiteId, sites, selectedSiteId,
          title, content, imageFile, error, publishingStatus, drafts,
          pubTasks, pubOp, pubRequest, pubThrown,
          sheetPut, cleanUrl, roundTrip,
          saveTasks, savedLinks,
          categories, selectedCategoryId, isLoadingCategories, catRequests,
          catPost>>
utilVars == <<sheetPut, cleanUrl, roundTrip>>
saveVars == <<saveTasks, savedLinks>>
catVars == <<categories, selectedCategoryId, isLoadingCategories, catRequests,
             catPost>>
keyVars == <<storedKeys, envKey, geminiKeys>>
siteVars == <<storedSites, wpSites, nextSiteId>>
singleVars == <<selectedSiteId, title, content, imageFile, error, publishingStatus>>
pubVars == <<mode, siteVars, sites, singleVars, drafts, pubTasks, pubOp, pubRequest,
             pubThrown>>
genVars == <<genPc, genKeys, genIdx, genAttempts, genLastError, genResult>>

\* what the steps of one component leave alone
nonBatchVars == <<wpVars, mediaVars, keyVars, genVars, pubVars, utilVars, saveVars, catVars>>
nonWpVars == <<batchVars, mediaVars, keyVars, genVars, pubVars, utilVars, saveVars, catVars>>
nonMediaVars == <<batchVars, wpVars, keyVars, genVars, pubVars, utilVars, saveVars, catVars>>
nonGenVars == <<batchVars, wpVars, mediaVars, keyVars, pubVars, utilVars, saveVars, catVars>>
nonPubVars == <<wpVars, mediaVars, keyVars, genVars, utilVars, saveVars, catVars>>
nonUtilVars == <<batchVars, wpVars, mediaVars, keyVars, genVars, pubVars,
                 saveVars, catVars>>

\* ------------------------------------------------------------- helpers
Range(s) == {s[i] : i \in 1..Len(s)}

\* articles.some(a => a.id === id)
InArticles(arts, id) == \E k \in DOMAIN arts : arts[k] = id

RECURSIVE SeqsUpTo(_, _)
\* all sequences over S of length 0..n
SeqsUpTo(S, n) ==
    IF n = 0 THEN {<<>>}
    ELSE LET shorter == SeqsUpTo(S, n - 1)
         IN  shorter \cup {Append(s, x) : s \in {t \in shorter : Len(t) = n - 1}, x \in S}

\* prev.slice(1)
Slice1(q) == IF q = <<>> THEN <<>> ELSE Tail(q)

\* ----------------------------------------------------------- input data
\* column A of the rows of DEMO_ROWS
DEMO_ROWS == <<"Yoga", "Marketing", "Alimentacao">>

\* keyword cell of sheet row i when it is not blank
KeywordAt(i) == <<"A", "B", "C", "D", "E", "F">>[i]

\* column A of a fetched sheet: 1..MaxRows rows, a row's keyword cell is
\* either blank or the keyword of its position
Sheets ==
    {s \in SeqsUpTo({TRUE, FALSE}, MaxRows) : Len(s) > 0}

RowsOf(s) == [i \in 1..Len(s) |-> IF s[i] THEN KeywordAt(i) ELSE ""]

NoToken == "null"

\* log lines of the batch panel
LogImport(n)  == [kind |-> "Importado", kw |-> "", n |-> n]
LogStart(kw)  == [kind |-> "Iniciando", kw |-> kw, n |-> 0]
LogGenerated  == [kind |-> "Artigo gerado", kw |-> "", n |-> 0]
LogSheet      == [kind |-> "Atualizando planilha", kw |-> "", n |-> 0]
LogSuccess(kw) == [kind |-> "Sucesso", kw |-> kw, n |-> 0]
LogError(kw)  == [kind |-> "Erro em", kw |-> kw, n |-> 0]

\* addLog applied to a BatchProgress value
AddLog(bp, line) == [bp EXCEPT !.logs = Append(@, line)]

\* ---------------------------------------------------------------- Init
InitProgress ==
    [isActive |-> FALSE, total |-> 0, processed |-> 0, currentKeyword |-> "",
     logs |-> <<>>]

\* lastError = null
NoError == [message |-> "", at |-> 0]
\* no value returned, no error thrown yet
NoResult == [status |-> "none", text |-> "", message |-> "", at |-> 0]

\* no updateSheetCell call was made yet
NoPut ==
    [spreadsheetId |-> "", rowIndex |-> 0, columnLetter |-> "", value |-> "",
     range |-> <<>>, values |-> <<>>, outcome |-> "none"]

\* no document was converted yet
NoRoundTrip == [markdown |-> <<>>, html |-> <<>>, back |-> <<>>]

\* no cleanWpUrl call was made yet
NoCleanUrl == [url |-> <<>>, clean |-> <<>>]

\* the services and the Settings screen before their first use
InitServices ==
    /\ wpPc = 0
    /\ wpCalls = <<>>
    /\ wpLastError = [status |-> "thrown", kind |-> "Unknown Error", tier |-> 0, code |-> 0, url |-> ""]
    /\ wpResult = [status |-> "none", kind |-> "", tier |-> 0, code |-> 0, url |-> ""]
    /\ mediaPc = 0
    /\ mediaCalls = <<>>
    /\ mediaResult = [status |-> "none", kind |-> "", tier |-> 0, code |-> 0, url |-> ""]
    /\ geminiKeys = <<>>
    /\ genPc = "idle"
    /\ genKeys = <<>>
    /\ genIdx = 0
    /\ genAttempts = <<>>
    /\ genLastError = NoError
    /\ genResult = NoResult
    /\ sheetPut = NoPut
    /\ cleanUrl = NoCleanUrl
    /\ roundTrip = NoRoundTrip

\* selectedCategoryId '': no category is selected
NoCategory == [site |-> 0, slug |-> ""]

\* no createWpPost was sent yet
NoCatPost == [site |-> 0, categories |-> <<>>]

\* the category state of a WordpressPublisher before its effects
InitCategories ==
    /\ categories = <<>>
    /\ selectedCategoryId = NoCategory
    /\ isLoadingCategories = FALSE
    /\ catRequests = <<>>
    /\ catPost = NoCatPost

\* the state of a WordpressPublisher before its mount effect
InitSingle ==
    /\ selectedSiteId = 0
    /\ title = ""
    /\ content = ""
    /\ imageFile = FALSE
    /\ error = ""
    /\ publishingStatus = "idle"

\* App on its first screen, no publisher mounted, no site stored
InitPublishers ==
    /\ mode = "single"
    /\ storedSites = <<>>
    /\ wpSites = <<>>
    /\ nextSiteId = 0
    /\ sites = <<>>
    /\ InitSingle
    /\ drafts = <<>>
    /\ pubTasks = <<>>
    /\ pubOp = [publisher |-> "", resolved |-> TRUE, shown |-> "", sent |-> FALSE]
    /\ pubRequest = [kind |-> "none", title |-> "", content |-> ""]
    /\ pubThrown = ""
    /\ InitCategories

\* the batch engine after App is constructed
InitBatch ==
    /\ queue = <<>>
    /\ isProcessingBatch = FALSE
    /\ batchToken = NoToken
    /\ batchProgress = InitProgress
    /\ articles = <<>>
    /\ isDemoMode \in BOOLEAN
    /\ effectDue = FALSE
    /\ tasks = <<>>
    /\ nextId = 0
    /\ started = <<>>
    /\ failed = {}
    /\ lastImport = [jobs |-> <<>>, rows |-> <<>>, idle |-> TRUE]
    /\ saveTasks = <<>>
    /\ savedLinks = {}

\* a fresh browser profile and a build without environment key
Init ==
    /\ InitBatch
    /\ InitServices
    /\ InitPublishers
    /\ storedKeys = <<>>
    /\ envKey = ""

\* ------------------------------------------------- handleSheetImport
\* rowsToProcess.forEach: one QueueItem per row whose keyword cell is not
\* blank; rowIndex is the 0-based position in the imported range
\* variant: no row is skipped
HasKeywordAlways(cell) == TRUE

\* if (!row[0]) return, negated
HasKeyword(cell) == cell # ""

RECURSIVE BuildQueue(_, _, _, _)
\* variant: rowIndex counts the rows that were kept, not the rows read
BuildQueueKeptIndex(rows, index, id, sheetId) ==
    LET kept == SelectSeq(rows, LAMBDA r : r # "")
    IN  [k \in 1..Len(kept) |->
            [id |-> id + k - 1, keyword |-> kept[k], rowIndex |-> k - 1,
             sheetId |-> sheetId]]

\* rowsToProcess.forEach from row index (1-based here) on: rows without
\* keyword are skipped, rowIndex is the 0-based position in rowsToProcess
BuildQueue(rows, index, id, sheetId) ==
    IF index > Len(rows) THEN <<>>
    ELSE IF ~HasKeyword(rows[index]) THEN BuildQueue(rows, index + 1, id, sheetId)
    ELSE <<[id |-> id, keyword |-> rows[index], rowIndex |-> index - 1,
            sheetId |-> sheetId]>>
         \o BuildQueue(rows, index + 1, id + 1, sheetId)

\* setQueue(newQueue) of an import
ImportedQueue(prev, newQueue) == newQueue

\* setBatchProgress({...}) of an import
ImportedProgress(prev, newQueue) ==
    [isActive |-> TRUE, total |-> Len(newQueue), processed |-> 0,
     currentKeyword |-> "", logs |-> <<LogImport(Len(newQueue))>>]

\* the generation-mode branch of handleSheetImport (the BULK_PUBLISH branch
\* hands the rows to the bulk manager and touches nothing of the engine)
handleSheetImport(sheetId, rows, token) ==
    LET rowsToProcess == IF isDemoMode THEN DEMO_ROWS ELSE rows
        newQueue == BuildQueue(rowsToProcess, 1, nextId, sheetId)
    IN  /\ Len(newQueue) # 0
        /\ nextId + Len(newQueue) <= MaxJobs
        /\ batchToken' = token
        /\ queue' = ImportedQueue(queue, newQueue)
        /\ batchProgress' = ImportedProgress(batchProgress, newQueue)
        /\ effectDue' = TRUE
        /\ nextId' = nextId + Len(newQueue)
        /\ lastImport' = [jobs |-> newQueue, rows |-> rowsToProcess,
                          idle |-> (queue = <<>> /\ tasks = <<>>)]
        /\ UNCHANGED <<isProcessingBatch, articles, isDemoMode, tasks, started, failed>>
        /\ UNCHANGED nonBatchVars

\* SheetImportModal.handleStart: the demo bypass passes no rows and a
\* placeholder token, otherwise the fetched rows and the OAuth token
Import ==
    IF isDemoMode
    THEN handleSheetImport("demo-sheet-id", <<>>, "demo-token")
    ELSE \E s \in Sheets : handleSheetImport("sheet-id", RowsOf(s), "access-token")

\* ------------------------------------------------- batch worker effect
\* variant: the in-flight guard is not consulted
CanStartUnguarded(q, processing) == Len(q) # 0

\* the guard of processNextItem, negated: the closure's queue is
\* non-empty and no job is in flight
CanStart(q, processing) == Len(q) # 0 /\ ~processing

\* the pipeline of processNextItem up to its first await
StartedTask(q, demo, token) ==
    [item |-> Head(q), qlen |-> Len(q), demo |-> demo, token |-> token,
     pc |-> IF demo THEN "demoThink" ELSE "generate"]

\* one run of the effect [queue, isProcessingBatch, batchToken, isDemoMode]
BatchWorkerEffect ==
    /\ effectDue
    /\ IF CanStart(queue, isProcessingBatch)
       THEN /\ isProcessingBatch' = TRUE
            /\ effectDue' = TRUE
            /\ batchProgress' =
                 AddLog([batchProgress EXCEPT !.isActive = TRUE,
                                              !.currentKeyword = Head(queue).keyword],
                        LogStart(Head(queue).keyword))
            /\ tasks' = Append(tasks, StartedTask(queue, isDemoMode, batchToken))
            /\ started' = Append(started, Head(queue).id)
       ELSE /\ effectDue' = FALSE
            /\ UNCHANGED <<isProcessingBatch, batchProgress, tasks, started>>
    /\ UNCHANGED <<queue, batchToken, articles, isDemoMode, nextId, failed, lastImport>>
    /\ UNCHANGED nonBatchVars

\* ------------------------------------------------- the pipeline's awaits
RemoveAt(s, i) == [k \in 1..(Len(s) - 1) |-> IF k < i THEN s[k] ELSE s[k + 1]]

\* variant: the delay is awaited whatever the length of the queue
NeedsCoolDownAnyQueue(t) == ~t.demo

\* the condition of the finally block's delay(3000)
NeedsCoolDown(t) == ~t.demo /\ t.qlen > CoolDownMinQueue

\* variant: the finally block does not count the job
ProcessedNotCounted(bp) == bp

\* the counters after the finally block
Processed(bp) == [bp EXCEPT !.processed = @ + 1]

\* variant: the finally block drops the tail of the queue instead of its head
DequeuedLast(q) == IF q = <<>> THEN <<>> ELSE SubSeq(q, 1, Len(q) - 1)

\* variant: the finally block leaves the queue as it is
DequeuedNothing(q) == q

\* the queue after the finally block
Dequeued(q) == Slice1(q)

\* the end of the finally block: dequeue, count, release the guard
Finish(i, bp, arts, fl) ==
    /\ queue' = Dequeued(queue)
    /\ batchProgress' = Processed(bp)
    /\ isProcessingBatch' = FALSE
    /\ effectDue' = TRUE
    /\ tasks' = RemoveAt(tasks, i)
    /\ articles' = arts
    /\ failed' = fl
    /\ UNCHANGED <<batchToken, isDemoMode, nextId, started, lastImport>>
    /\ UNCHANGED nonBatchVars

\* the finally block entered with progress bp, history arts, failures fl
Finally(i, bp, arts, fl) ==
    IF NeedsCoolDown(tasks[i])
    THEN /\ tasks' = [tasks EXCEPT ![i].pc = "cooldown"]
         /\ batchProgress' = bp
         /\ articles' = arts
         /\ failed' = fl
         /\ UNCHANGED <<queue, isProcessingBatch, effectDue, batchToken,
                        isDemoMode, nextId, started, lastImport>>
         /\ UNCHANGED nonBatchVars
    ELSE Finish(i, bp, arts, fl)

\* variant: the error is logged and rethrown, the dequeue and the release
\* of the guard are skipped
CaughtRethrows(i) ==
    /\ tasks' = RemoveAt(tasks, i)
    /\ batchProgress' = AddLog(batchProgress, LogError(tasks[i].item.keyword))
    /\ failed' = failed \cup {tasks[i].item.id}
    /\ UNCHANGED <<queue, isProcessingBatch, effectDue, batchToken, articles,
                   isDemoMode, nextId, started, lastImport>>
    /\ UNCHANGED nonBatchVars

\* the catch block followed by the finally block
Caught(i) ==
    Finally(i, AddLog(batchProgress, LogError(tasks[i].item.keyword)),
            articles, failed \cup {tasks[i].item.id})

\* variant: the article is not added to history
SavedNothing(arts, item) == arts

\* the history after a job whose whole pipeline succeeded
Saved(arts, item) == <<item.id>> \o arts

\* step 3 of the try block followed by the finally block
Succeeded(i, bp) ==
    Finally(i, AddLog(bp, LogSuccess(tasks[i].item.keyword)),
            Saved(articles, tasks[i].item), failed)

\* a suspended pipeline moves to its next await without touching the engine
Advance(i, pc, bp) ==
    /\ tasks' = [tasks EXCEPT ![i].pc = pc]
    /\ batchProgress' = bp
    /\ UNCHANGED <<queue, isProcessingBatch, batchToken, articles, isDemoMode,
                   effectDue, nextId, started, failed, lastImport>>
    /\ UNCHANGED nonBatchVars

\* variant: the link is written back without the document being exported
NextStageSkipsExport(pc) == "updateSheet"

\* the await that follows a stage of the try block which returned
NextStage(pc) == IF pc = "generate" THEN "upload" ELSE "updateSheet"

\* generateGuestPostContent returned
GenerateReturns(i) ==
    /\ tasks[i].pc = "generate"
    /\ IF tasks[i].token # NoToken
       THEN Advance(i, NextStage("generate"), AddLog(batchProgress, LogGenerated))
       ELSE Finally(i, AddLog(AddLog(batchProgress, LogGenerated),
                              LogError(tasks[i].item.keyword)),
                    articles, failed \cup {tasks[i].item.id})

\* generateGuestPostContent threw
GenerateThrows(i) ==
    /\ tasks[i].pc = "generate"
    /\ Caught(i)

\* uploadToDrive returned
UploadReturns(i) ==
    /\ tasks[i].pc = "upload"
    /\ Advance(i, NextStage("upload"), AddLog(batchProgress, LogSheet))

\* uploadToDrive threw
UploadThrows(i) ==
    /\ tasks[i].pc = "upload"
    /\ Caught(i)

\* updateSheetCell returned
UpdateSheetReturns(i) ==
    /\ tasks[i].pc = "updateSheet"
    /\ Succeeded(i, batchProgress)

\* updateSheetCell threw
UpdateSheetThrows(i) ==
    /\ tasks[i].pc = "updateSheet"
    /\ Caught(i)

\* demo mode: delay(1500) elapsed
DemoThinkDone(i) ==
    /\ tasks[i].pc = "demoThink"
    /\ Advance(i, "demoSave", AddLog(batchProgress, LogGenerated))

\* demo mode: delay(1000) elapsed
DemoSaveDone(i) ==
    /\ tasks[i].pc = "demoSave"
    /\ Succeeded(i, batchProgress)

\* delay(3000) elapsed
CoolDownDone(i) ==
    /\ tasks[i].pc = "cooldown"
    /\ Finish(i, batchProgress, articles, failed)

\* ------------------------------------------------- BatchStatus
\* isComplete of BatchStatus: the close button is rendered only then
isComplete(bp) == bp.processed = bp.total /\ bp.total > 0

\* the onClose update of the panel
Closed(bp) == [bp EXCEPT !.isActive = FALSE, !.processed = 0, !.total = 0,
                         !.logs = <<>>]

\* variant: closing the panel also empties the history
DismissClearsHistory ==
    /\ batchProgress.processed = batchProgress.total /\ batchProgress.total > 0
    /\ batchProgress' = [batchProgress EXCEPT !.isActive = FALSE, !.processed = 0,
                                              !.total = 0, !.logs = <<>>]
    /\ articles' = <<>>
    /\ UNCHANGED <<queue, isProcessingBatch, batchToken, isDemoMode,
                   effectDue, tasks, nextId, started, failed, lastImport>>
    /\ UNCHANGED nonBatchVars

\* click on "Fechar"
Dismiss ==
    /\ isComplete(batchProgress)
    /\ batchProgress' = Closed(batchProgress)
    /\ UNCHANGED <<queue, isProcessingBatch, batchToken, articles, isDemoMode,
                   effectDue, tasks, nextId, started, failed, lastImport>>
    /\ UNCHANGED nonBatchVars

\* Settings onSave: the persisted demo flag is read back into the state
SettingsOnSave ==
    /\ isDemoMode' = ~isDemoMode
    /\ effectDue' = TRUE
    /\ UNCHANGED <<queue, isProcessingBatch, batchToken, batchProgress, articles,
                   tasks, nextId, started, failed, lastImport>>
    /\ UNCHANGED nonBatchVars

Next ==
    \/ Import
    \/ BatchWorkerEffect
    \/ \E i \in DOMAIN tasks : GenerateReturns(i)
    \/ \E i \in DOMAIN tasks : GenerateThrows(i)
    \/ \E i \in DOMAIN tasks : UploadReturns(i)
    \/ \E i \in DOMAIN tasks : UploadThrows(i)
    \/ \E i \in DOMAIN tasks : UpdateSheetReturns(i)
    \/ \E i \in DOMAIN tasks : UpdateSheetThrows(i)
    \/ \E i \in DOMAIN tasks : DemoThinkDone(i)
    \/ \E i \in DOMAIN tasks : DemoSaveDone(i)
    \/ \E i \in DOMAIN tasks : CoolDownDone(i)
    \/ Dismiss
    \/ SettingsOnSave

Spec == Init /\ [][Next]_vars

\* React runs an effect whose dependencies changed, and every network call
\* and every delay of a suspended pipeline eventually completes
Fairness ==
    /\ WF_vars(BatchWorkerEffect)
    /\ WF_vars(\E i \in DOMAIN tasks : GenerateReturns(i) \/ GenerateThrows(i))
    /\ WF_vars(\E i \in DOMAIN tasks : UploadReturns(i) \/ UploadThrows(i))
    /\ WF_vars(\E i \in DOMAIN tasks : UpdateSheetReturns(i) \/ UpdateSheetThrows(i))
    /\ WF_vars(\E i \in DOMAIN tasks : DemoThinkDone(i))
    /\ WF_vars(\E i \in DOMAIN tasks : DemoSaveDone(i))
    /\ WF_vars(\E i \in DOMAIN tasks : CoolDownDone(i))

\* the batch engine with calls and delays that complete
SpecFair == Init /\ [][Next]_vars /\ Fairness

\* ------------------------------------------------- handleSaveToDrive
\* "Salvar no Drive" on an article of the history: the handler keeps the
\* articles of the render it was created in and waits for the demo timer,
\* or for the token and the upload
handleSaveToDrive(article) ==
    /\ InArticles(articles, article)
    /\ Len(saveTasks) < MaxSaves
    /\ saveTasks' = Append(saveTasks, [article |-> article, articles |-> articles,
                                       links |-> savedLinks, demo |-> isDemoMode])
    /\ UNCHANGED <<articles, savedLinks, catVars>>
    /\ UNCHANGED <<queue, isProcessingBatch, batchToken, batchProgress, isDemoMode,
                   effectDue, tasks, nextId, started, failed, lastImport>>
    /\ UNCHANGED <<wpVars, mediaVars, keyVars, genVars, pubVars, utilVars>>

\* articles.map(a => a.id === article.id ? { ...a, driveUrl, driveId } : a)
\* on the articles kept by the handler: the ids, and the ids with a link
UpdatedArticles(t) == t.articles

UpdatedLinks(t) ==
    t.links \cup {id \in Range(t.articles) : id = t.article}

\* the timer fired or uploadToDrive returned: setArticles(updated)
SaveUploaded(k) ==
    /\ articles' = UpdatedArticles(saveTasks[k])
    /\ savedLinks' = UpdatedLinks(saveTasks[k])
    /\ saveTasks' = RemoveAt(saveTasks, k)
    /\ UNCHANGED catVars
    /\ UNCHANGED <<queue, isProcessingBatch, batchToken, batchProgress, isDemoMode,
                   effectDue, tasks, nextId, started, failed, lastImport>>
    /\ UNCHANGED <<wpVars, mediaVars, keyVars, genVars, pubVars, utilVars>>

\* the token was refused or uploadToDrive threw: only a notification
SaveUploadThrows(k) ==
    /\ ~saveTasks[k].demo
    /\ saveTasks' = RemoveAt(saveTasks, k)
    /\ UNCHANGED <<articles, savedLinks, catVars>>
    /\ UNCHANGED <<queue, isProcessingBatch, batchToken, batchProgress, isDemoMode,
                   effectDue, tasks, nextId, started, failed, lastImport>>
    /\ UNCHANGED <<wpVars, mediaVars, keyVars, genVars, pubVars, utilVars>>

\* the exports of history articles next to a batch engine whose calls
\* succeed
NextSave ==
    \/ Import
    \/ BatchWorkerEffect
    \/ \E i \in DOMAIN tasks : GenerateReturns(i)
    \/ \E i \in DOMAIN tasks : UploadReturns(i)
    \/ \E i \in DOMAIN tasks : UpdateSheetReturns(i)
    \/ \E i \in DOMAIN tasks : DemoThinkDone(i)
    \/ \E i \in DOMAIN tasks : DemoSaveDone(i)
    \/ \E i \in DOMAIN tasks : CoolDownDone(i)
    \/ \E article \in 0..MaxJobs : handleSaveToDrive(article)
    \/ \E k \in DOMAIN saveTasks : SaveUploaded(k)
    \/ \E k \in DOMAIN saveTasks : SaveUploadThrows(k)

SpecSave == Init /\ [][NextSave]_vars

\* ------------------------------------------------- fetchWpWithFallback
\* what the site (or the relay) may answer to one request: an HTTP status
\* with or without a JSON body, or no answer at all (status 0: fetch rejects)
WpResponses ==
    {[status |-> 200, json |-> TRUE], [status |-> 200, json |-> FALSE],
     [status |-> 201, json |-> TRUE]}
    \cup {[status |-> c, json |-> FALSE] : c \in {0, 401, 403, 404, 500, 502}}

\* response.ok
IsOk(r) == r.status >= 200 /\ r.status <= 299

\* the URL requested by strategy k
WpUrl(k) == <<"base/wp-json/wp/v2", "base/?rest_route=/wp/v2",
              "relay?base/wp-json/wp/v2", "relay?base/?rest_route=/wp/v2">>[k]

\* an Error: kind is the fixed part of its message, tier the strategy label,
\* code the HTTP status and url the URL the message quotes
WpError(kind, tier, code) ==
    [status |-> "thrown", kind |-> kind, tier |-> tier, code |-> code, url |-> ""]

\* the parsed body a strategy returns
WpBody(k, r) ==
    [status |-> "returned", kind |-> "json", tier |-> k, code |-> r.status, url |-> ""]

\* variant: a 404 is classified like an authentication failure
tryStrategyNotFoundDenied(k, r) ==
    IF r.status = 0 THEN WpError("Failed to fetch", 0, 0)
    ELSE IF IsOk(r) THEN IF r.json THEN WpBody(k, r) ELSE WpError("SyntaxError", 0, 0)
    ELSE IF r.status \in {401, 403, 404} THEN WpError("Acesso Negado", k, 0)
    ELSE WpError("Status", 0, r.status)

\* tryStrategy(label, url) for the answer r: the value returned or the error thrown
tryStrategy(k, r) ==
    IF r.status = 0 THEN WpError("Failed to fetch", 0, 0)
    ELSE IF IsOk(r)
         THEN IF r.json THEN WpBody(k, r)
              ELSE WpError("SyntaxError", 0, 0)
    ELSE IF r.status = 401 \/ r.status = 403
         THEN WpError("Acesso Negado", k, 0)
    ELSE WpError("Status", 0, r.status)

\* variant: the outer catch looks for the inner marker instead of the
\* message tryStrategy rethrows
IsAccessDeniedMarker(e) == e.kind = "AUTH_ERROR"

\* e.message.includes("Acesso Negado")
IsAccessDenied(e) == e.kind = "Acesso Negado"

\* the error thrown by the catch block of strategy 4
AllFailed(last) ==
    IF last.kind = "Failed to fetch" \/ (last.kind = "Status" /\ last.code = 502)
    THEN [WpError("FALHA CRITICA (CORS/502)", 0, 0) EXCEPT !.url = "base"]
    ELSE WpError(last.kind, last.tier, last.code)

\* a caller invokes fetchWpWithFallback
WpCall ==
    /\ wpPc = 0
    /\ wpPc' = 1
    /\ UNCHANGED <<wpCalls, wpLastError, wpResult>>
    /\ UNCHANGED nonWpVars

\* strategy wpPc is requested and answered by r
WpStrategy(r) ==
    /\ wpPc \in 1..NumTiers
    /\ wpCalls' = Append(wpCalls, [tier |-> wpPc, url |-> WpUrl(wpPc),
                                   status |-> r.status, json |-> r.json])
    /\ LET out == tryStrategy(wpPc, r)
       IN  IF out.status = "returned" \/ IsAccessDenied(out)
           THEN /\ wpResult' = out
                /\ wpPc' = NumTiers + 1
                /\ UNCHANGED wpLastError
           ELSE IF wpPc < NumTiers
           THEN /\ wpLastError' = out
                /\ wpPc' = wpPc + 1
                /\ UNCHANGED wpResult
           ELSE /\ wpResult' = AllFailed(wpLastError)
                /\ wpPc' = NumTiers + 1
                /\ UNCHANGED wpLastError
    /\ UNCHANGED nonWpVars

NextWp ==
    \/ WpCall
    \/ \E r \in WpResponses : WpStrategy(r)

SpecWp == Init /\ [][NextWp]_vars

\* ------------------------------------------------- uploadWpMedia
\* tryUpload(url, useProxy) for the answer r
tryUpload(k, r) ==
    IF r.status = 0 THEN WpError("Failed to fetch", 0, 0)
    ELSE IF ~IsOk(r)
         THEN IF r.status = 401 THEN WpError("AUTH_ERROR", 0, 0)
              ELSE WpError("Status", 0, r.status)
    ELSE IF r.json THEN WpBody(k, r)
    ELSE WpError("SyntaxError", 0, 0)

\* the test of the catch block around strategy k: only the catch of the
\* first strategy looks at the error, e2, e3 and e4 are never inspected
MediaAuthStops(k, e) == k = 1 /\ e.kind = "AUTH_ERROR"

\* a publisher invokes uploadWpMedia
MediaCall ==
    /\ mediaPc = 0
    /\ mediaPc' = 1
    /\ UNCHANGED <<mediaCalls, mediaResult>>
    /\ UNCHANGED nonMediaVars

\* upload strategy mediaPc is requested and answered by r
MediaStrategy(r) ==
    /\ mediaPc \in 1..NumTiers
    /\ mediaCalls' = Append(mediaCalls, [tier |-> mediaPc, url |-> WpUrl(mediaPc),
                                         status |-> r.status, json |-> r.json])
    /\ LET out == tryUpload(mediaPc, r)
       IN  IF out.status = "returned"
           THEN /\ mediaResult' = out
                /\ mediaPc' = NumTiers + 1
           ELSE IF MediaAuthStops(mediaPc, out)
           THEN /\ mediaResult' = WpError("Erro de Autenticacao ao enviar imagem", 0, 0)
                /\ mediaPc' = NumTiers + 1
           ELSE IF mediaPc < NumTiers
           THEN /\ mediaPc' = mediaPc + 1
                /\ UNCHANGED mediaResult
           ELSE /\ mediaResult' = WpError("Falha ao enviar imagem", 0, 0)
                /\ mediaPc' = NumTiers + 1
    /\ UNCHANGED nonMediaVars

NextMedia ==
    \/ MediaCall
    \/ \E r \in WpResponses : MediaStrategy(r)

SpecMedia == Init /\ [][NextMedia]_vars

\* ------------------------------------------------- Settings: key list
\* strings typed into the key field: two keys, a padded key, blanks
TypedKeys == {"k1", "k2", " k2 ", "  "}
\* strings a stored key list may hold
StoredStrings == {"k1", "k2", ""}
\* process.env.API_KEY of a build: none, a stored key, another key, a blank
EnvKeys == {"", "k1", "k3", " "}

\* mode = AppMode.SETTINGS
settingsOpen == mode = "settings"

\* the createWpPost calls that the pipelines awaiting uploadWpMedia will
\* make if their upload returns
PendingPosts(ts) ==
    {[kind |-> "post", title |-> ts[k].title, content |-> ts[k].content] :
        k \in {j \in DOMAIN ts : ts[j].pc = "media"}}

\* the pipelines of a component that is unmounted run on, but their
\* setState calls have no effect any more: all that is left of them is the
\* createWpPost call that may follow a pending upload
OrphansRunOn ==
    /\ pubTasks' = <<>>
    /\ pubRequest' \in {pubRequest} \cup PendingPosts(pubTasks)

\* App renders another screen: the state of the publisher that was mounted
\* is dropped
Unmounted ==
    /\ sites' = <<>>
    /\ selectedSiteId' = 0
    /\ title' = ""
    /\ content' = ""
    /\ imageFile' = FALSE
    /\ error' = ""
    /\ publishingStatus' = "idle"
    /\ drafts' = <<>>
    /\ OrphansRunOn

\* String.prototype.trim
Trim(str) ==
    CASE str = " k2 " -> "k2"
      [] str = "  " -> ""
      [] str = " " -> ""
      [] OTHER -> str

\* Settings is mounted: the mount effect loads the stored lists
SettingsMount ==
    /\ mode # "settings"
    /\ mode' = "settings"
    /\ geminiKeys' = storedKeys
    /\ wpSites' = storedSites
    /\ Unmounted
    /\ UNCHANGED <<storedKeys, envKey, storedSites, nextSiteId, pubOp, pubThrown>>
    /\ UNCHANGED <<batchVars, wpVars, mediaVars, genVars, utilVars, saveVars, catVars>>

\* variant: a key that is already in the list is added again
CanAddKeyTwice(keys, newKey) == Trim(newKey) # ""

\* newKey.trim() && !geminiKeys.includes(newKey.trim())
CanAddKey(keys, newKey) == Trim(newKey) # "" /\ Trim(newKey) \notin Range(keys)

\* addGeminiKey with newKey in the key field
addGeminiKey(newKey) ==
    /\ settingsOpen
    /\ Len(geminiKeys) < MaxKeys
    /\ geminiKeys' = IF CanAddKey(geminiKeys, newKey)
                     THEN Append(geminiKeys, Trim(newKey))
                     ELSE geminiKeys
    /\ UNCHANGED <<storedKeys, envKey, pubVars>>
    /\ UNCHANGED <<batchVars, wpVars, mediaVars, genVars, utilVars, saveVars, catVars>>

\* removeGeminiKey(keyToRemove)
removeGeminiKey(keyToRemove) ==
    /\ settingsOpen
    /\ keyToRemove \in Range(geminiKeys)
    /\ geminiKeys' = SelectSeq(geminiKeys, LAMBDA k : k # keyToRemove)
    /\ UNCHANGED <<storedKeys, envKey, pubVars>>
    /\ UNCHANGED <<batchVars, wpVars, mediaVars, genVars, utilVars, saveVars, catVars>>

\* handleSave with the demo checkbox at isDemo: the lists are persisted,
\* onSave reads the demo flag back and App leaves the Settings screen
handleSave(isDemo) ==
    /\ settingsOpen
    /\ storedKeys' = geminiKeys
    /\ storedSites' = wpSites
    /\ mode' = "single"
    /\ isDemoMode' = isDemo
    /\ effectDue' = (effectDue \/ isDemo # isDemoMode)
    /\ geminiKeys' = <<>>
    /\ wpSites' = <<>>
    /\ UNCHANGED <<envKey, nextSiteId, sites, singleVars,
                   drafts, pubTasks, pubOp, pubRequest, pubThrown>>
    /\ UNCHANGED <<queue, isProcessingBatch, batchToken, batchProgress, articles,
                   tasks, nextId, started, failed, lastImport>>
    /\ UNCHANGED <<wpVars, mediaVars, genVars, utilVars, saveVars, catVars>>

\* ------------------------------------------- generateGuestPostContent
\* getAvailableApiKeys(): the stored list, the environment key pushed when
\* it is set and not included, blanks filtered out
getAvailableApiKeys(stored, env) ==
    LET keys == IF env # "" /\ env \notin Range(stored)
                THEN Append(stored, env)
                ELSE stored
    IN  SelectSeq(keys, LAMBDA k : k # "" /\ Trim(k) # "")

\* what the provider does with one request
ProviderAnswers ==
    {[kind |-> "response", text |-> "article", message |-> ""],
     [kind |-> "response", text |-> "", message |-> ""],
     [kind |-> "throws", text |-> "", message |-> "429 quota exceeded"]}

ConfigError == "Nenhuma chave API do Gemini encontrada"
EmptyResponse == "API retornou resposta vazia"
AllKeysFailed == "Todas as chaves API falharam"

\* variant: the guard on the empty list is missing
NoKeysNever(keys) == FALSE

\* apiKeys.length === 0
NoKeys(keys) == Len(keys) = 0

\* variant: any response counts as success, whatever its text
GenSucceededAnyResponse(a) == a.kind = "response"

\* the try block reaches `return response.text`
GenSucceeded(a) == a.kind = "response" /\ a.text # ""

\* the error the catch block receives for answer a of attempt i
GenError(a, i) ==
    IF a.kind = "throws" THEN [message |-> a.message, at |-> i]
    ELSE [message |-> EmptyResponse, at |-> i]

\* variant: the first error is kept
GenCatchKeepsFirst(prev, err) == IF prev = NoError THEN err ELSE prev

\* lastError = error
GenCatch(prev, err) == err

\* the error thrown after the loop
GenAllFailed(last) ==
    [status |-> "thrown", text |-> "",
     message |-> IF last = NoError THEN AllKeysFailed ELSE last.message,
     at |-> last.at]

\* generateGuestPostContent is called: the candidate list is built once
GenCall ==
    /\ genPc = "idle"
    /\ LET apiKeys == getAvailableApiKeys(storedKeys, envKey)
       IN  /\ genKeys' = apiKeys
           /\ IF NoKeys(apiKeys)
              THEN /\ genResult' = [status |-> "thrown", text |-> "",
                                    message |-> ConfigError, at |-> 0]
                   /\ genPc' = "done"
                   /\ genIdx' = 0
              ELSE IF Len(apiKeys) = 0
              THEN /\ genResult' = GenAllFailed(NoError)
                   /\ genPc' = "done"
                   /\ genIdx' = 0
              ELSE /\ genPc' = "running"
                   /\ genIdx' = 1
                   /\ UNCHANGED genResult
    /\ UNCHANGED <<genAttempts, genLastError>>
    /\ UNCHANGED nonGenVars

\* variant: the key list is read again from storage for every attempt
KeyOfAttemptRereads(apiKeys, i) ==
    LET now == getAvailableApiKeys(storedKeys, envKey)
    IN  IF i <= Len(now) THEN now[i] ELSE ""

\* for (const apiKey of apiKeys): the i-th key of the list built when the
\* call started
KeyOfAttempt(apiKeys, i) == apiKeys[i]

\* one pass of the for loop: the provider answers a to the request made
\* with apiKeys[genIdx]
GenAttempt(a) ==
    /\ genPc = "running"
    /\ genAttempts' = Append(genAttempts, [key |-> KeyOfAttempt(genKeys, genIdx),
                                           answer |-> a])
    /\ IF GenSucceeded(a)
       THEN /\ genResult' = [status |-> "returned", text |-> a.text,
                             message |-> "", at |-> genIdx]
            /\ genPc' = "done"
            /\ UNCHANGED <<genIdx, genLastError>>
       ELSE LET last == GenCatch(genLastError, GenError(a, genIdx))
            IN  /\ genLastError' = last
                /\ IF genIdx < Len(genKeys)
                   THEN /\ genIdx' = genIdx + 1
                        /\ UNCHANGED <<genPc, genResult>>
                   ELSE /\ genResult' = GenAllFailed(last)
                        /\ genPc' = "done"
                        /\ UNCHANGED genIdx
    /\ UNCHANGED genKeys
    /\ UNCHANGED nonGenVars

\* the call has returned or thrown and its caller has taken the outcome:
\* the locals of the call are gone, the next job's call starts afresh
GenReturn ==
    /\ genPc = "done"
    /\ genPc' = "idle"
    /\ genKeys' = <<>>
    /\ genIdx' = 0
    /\ genAttempts' = <<>>
    /\ genLastError' = NoError
    /\ genResult' = NoResult
    /\ UNCHANGED nonGenVars

\* a browser profile with any stored key list and a build with any
\* environment key
InitGen ==
    /\ InitBatch
    /\ InitServices
    /\ InitPublishers
    /\ storedKeys \in SeqsUpTo(StoredStrings, MaxKeys)
    /\ envKey \in EnvKeys

NextGen ==
    \/ SettingsMount
    \/ \E newKey \in TypedKeys : addGeminiKey(newKey)
    \/ \E keyToRemove \in StoredStrings : removeGeminiKey(keyToRemove)
    \/ \E isDemo \in BOOLEAN : handleSave(isDemo)
    \/ GenCall
    \/ \E a \in ProviderAnswers : GenAttempt(a)
    \/ GenReturn

SpecGen == InitGen /\ [][NextGen]_vars

\* the same steps from a fresh browser profile: what is stored was written
\* by handleSave
SpecKeys == Init /\ [][NextGen]_vars

\* ------------------------------------------------- Settings: site list
\* handleSaveSite for a new record with all fields filled
handleSaveSite ==
    /\ settingsOpen
    /\ nextSiteId < MaxSites
    /\ nextSiteId' = nextSiteId + 1
    /\ wpSites' = Append(wpSites, nextSiteId + 1)
    /\ storedSites' = Append(wpSites, nextSiteId + 1)
    /\ UNCHANGED <<mode, sites, singleVars, drafts, pubTasks, pubOp, pubRequest, pubThrown>>
    /\ UNCHANGED <<batchVars, nonPubVars>>

\* handleDeleteSite(id), confirmed
handleDeleteSite(id) ==
    /\ settingsOpen
    /\ id \in Range(wpSites)
    /\ wpSites' = SelectSeq(wpSites, LAMBDA x : x # id)
    /\ storedSites' = SelectSeq(wpSites, LAMBDA x : x # id)
    /\ UNCHANGED <<mode, nextSiteId, sites, singleVars, drafts, pubTasks, pubOp, pubRequest, pubThrown>>
    /\ UNCHANGED <<batchVars, nonPubVars>>

\* ------------------------------------------------- publishers, common
\* texts of a title or content field: empty, blank, filled
Texts == {"", " ", "Post"}
NoSite == 0

\* sites.find(s => s.id === id)
FindSite(list, id) == IF id \in Range(list) THEN id ELSE NoSite

\* one handlePublish call: the publisher, whether the draft's site
\* reference named a record of the publisher's list, the message shown to
\* the user and whether the call went on to the network
PublishOp(publisher, resolved, shown, sent) ==
    [publisher |-> publisher, resolved |-> resolved, shown |-> shown, sent |-> sent]

\* one uploadWpMedia or createWpPost call with the texts of its draft
PublishRequest(kind, t, c) ==
    [kind |-> kind, title |-> t, content |-> c]

\* variant: the post is created without waiting for the upload
FirstAwaitPostOnly(image) == "post"

\* the first await of a publish pipeline: uploadWpMedia when an image is
\* attached, createWpPost otherwise
FirstAwait(image) == IF image THEN "media" ELSE "post"

\* a pipeline suspended at its first await
PublishTask(publisher, draft, t, c, image, status) ==
    [publisher |-> publisher, draft |-> draft, title |-> t, content |-> c,
     image |-> image, status |-> status, pc |-> FirstAwait(image)]

\* ------------------------------------------------- WordpressPublisher
\* the publisher is mounted with initialTitle t and initialContent c: the
\* mount effects load the stored sites, select the first one and take over
\* the texts of the active article
WordpressPublisherMount(t, c) ==
    /\ mode # "wordpress"
    /\ mode' = "wordpress"
    /\ sites' = storedSites
    /\ selectedSiteId' = IF Len(storedSites) > 0 THEN storedSites[1] ELSE 0
    /\ title' = t
    /\ content' = c
    /\ imageFile' = FALSE
    /\ error' = ""
    /\ publishingStatus' = "idle"
    /\ drafts' = <<>>
    /\ OrphansRunOn
    /\ wpSites' = <<>>
    /\ geminiKeys' = <<>>
    /\ UNCHANGED <<storedSites, nextSiteId, pubOp, pubThrown>>
    /\ UNCHANGED <<storedKeys, envKey>>
    /\ UNCHANGED <<batchVars, wpVars, mediaVars, genVars, utilVars, saveVars, catVars>>

\* setTitle / setContent / handleImageChange: the draft is edited, one
\* field at a time
EditPost(t, c, image) ==
    /\ mode = "wordpress"
    /\ <<t, c, image>> # <<title, content, imageFile>>
    /\ title' = t
    /\ content' = c
    /\ imageFile' = image
    /\ UNCHANGED <<mode, siteVars, sites, selectedSiteId, error, publishingStatus,
                   drafts, pubTasks, pubOp, pubRequest, pubThrown>>
    /\ UNCHANGED <<batchVars, nonPubVars>>

\* the site select: setSelectedSiteId(e.target.value)
SelectSite(id) ==
    /\ mode = "wordpress"
    /\ id \in Range(sites)
    /\ id # selectedSiteId
    /\ selectedSiteId' = id
    /\ UNCHANGED <<mode, siteVars, sites, title, content, imageFile, error,
                   publishingStatus, drafts, pubTasks, pubOp, pubRequest, pubThrown>>
    /\ UNCHANGED <<batchVars, nonPubVars>>

\* variant: the publisher goes on without a site
SiteMissingNever(site) == FALSE

\* if (!site)
SiteMissing(site) == site = NoSite

\* if (!title.trim() || !content.trim())
TextMissing(t, c) == Trim(t) = "" \/ Trim(c) = ""

\* publishingStatus while createWpPost is awaited
PostingStatus(status) == IF status = "publish" THEN "publishing" ELSE "drafting"

\* WordpressPublisher handlePublish(status); its buttons are disabled while
\* publishingStatus is not idle
SingleHandlePublish(status) ==
    /\ mode = "wordpress"
    /\ publishingStatus = "idle"
    /\ LET site == FindSite(sites, selectedSiteId)
           resolved == selectedSiteId \in Range(sites)
       IN  IF SiteMissing(site)
           THEN /\ error' = "Selecione um site para publicar"
                /\ pubOp' = PublishOp("single", resolved, "Selecione um site para publicar", FALSE)
                /\ UNCHANGED <<publishingStatus, pubTasks, pubRequest>>
           ELSE IF TextMissing(title, content)
           THEN /\ error' = "Titulo e conteudo sao obrigatorios"
                /\ pubOp' = PublishOp("single", resolved, "Titulo e conteudo sao obrigatorios", FALSE)
                /\ UNCHANGED <<publishingStatus, pubTasks, pubRequest>>
           ELSE /\ error' = ""
                /\ pubOp' = PublishOp("single", resolved, "", TRUE)
                /\ publishingStatus' = IF imageFile THEN "uploading_img"
                                       ELSE PostingStatus(status)
                /\ pubTasks' = Append(pubTasks,
                                  PublishTask("single", 0, title, content, imageFile, status))
                /\ pubRequest' = PublishRequest(FirstAwait(imageFile), title, content)
    /\ UNCHANGED <<mode, siteVars, sites, selectedSiteId, title, content, imageFile,
                   drafts, pubThrown>>
    /\ UNCHANGED <<batchVars, nonPubVars>>

\* --------------------------------------------------- BulkPostManager
\* the bulk publisher is mounted: the mount effect loads the stored sites
BulkPostManagerMount ==
    /\ mode # "bulk"
    /\ mode' = "bulk"
    /\ sites' = storedSites
    /\ selectedSiteId' = 0
    /\ title' = ""
    /\ content' = ""
    /\ imageFile' = FALSE
    /\ error' = ""
    /\ publishingStatus' = "idle"
    /\ drafts' = <<>>
    /\ OrphansRunOn
    /\ wpSites' = <<>>
    /\ geminiKeys' = <<>>
    /\ UNCHANGED <<storedSites, nextSiteId, pubOp, pubThrown>>
    /\ UNCHANGED <<storedKeys, envKey>>
    /\ UNCHANGED <<batchVars, wpVars, mediaVars, genVars, utilVars, saveVars, catVars>>

\* rows of an imported sheet: the site column holds no address (0) or the
\* address of site record url, the document column is filled or not
BulkRows == [url : 0..MaxSites, doc : BOOLEAN]

\* the draft processRows builds for a row
NewDraft(row, list) ==
    [site |-> FindSite(list, row.url),
     title |-> IF row.doc THEN "Carregando..." ELSE "Keyword",
     content |-> IF row.doc THEN "" ELSE "Artigo sobre: Keyword",
     status |-> IF row.doc THEN "loading_doc" ELSE "idle",
     errorMsg |-> "",
     image |-> FALSE]

\* processRows: the drafts of the imported rows are appended
processRows(rows) ==
    /\ mode = "bulk"
    /\ Len(rows) >= 1
    /\ Len(drafts) + Len(rows) <= MaxDrafts
    /\ drafts' = drafts \o [k \in DOMAIN rows |-> NewDraft(rows[k], sites)]
    /\ UNCHANGED <<mode, siteVars, sites, singleVars, pubTasks, pubOp, pubRequest, pubThrown>>
    /\ UNCHANGED <<batchVars, nonPubVars>>

\* documents: a first-level heading followed by text, and an empty document
Markdowns == {[heading |-> "Title", body |-> "Body"], [heading |-> "", body |-> ""]}

\* getGoogleDocContent returned md for draft i
DocLoaded(i, md) ==
    /\ mode = "bulk"
    /\ i \in DOMAIN drafts
    /\ drafts[i].status = "loading_doc"
    /\ drafts' = [drafts EXCEPT ![i].title = IF md.heading # "" THEN md.heading
                                             ELSE "Keyword",
                                ![i].content = md.body,
                                ![i].status = "idle"]
    /\ UNCHANGED <<mode, siteVars, sites, singleVars, pubTasks, pubOp, pubRequest, pubThrown>>
    /\ UNCHANGED <<batchVars, nonPubVars>>

\* the document of draft i could not be loaded
DocFailed(i) ==
    /\ mode = "bulk"
    /\ i \in DOMAIN drafts
    /\ drafts[i].status = "loading_doc"
    /\ drafts' = [drafts EXCEPT ![i].title = "Erro ao carregar",
                                ![i].status = "error",
                                ![i].errorMsg = "Link do Doc invalido"]
    /\ UNCHANGED <<mode, siteVars, sites, singleVars, pubTasks, pubOp, pubRequest, pubThrown>>
    /\ UNCHANGED <<batchVars, nonPubVars>>

\* the site select of draft i: updateDraft(id, {matchedSiteId})
BulkSelectSite(i, id) ==
    /\ mode = "bulk"
    /\ i \in DOMAIN drafts
    /\ id \in Range(sites) \cup {NoSite}
    /\ id # drafts[i].site
    /\ drafts' = [drafts EXCEPT ![i].site = id]
    /\ UNCHANGED <<mode, siteVars, sites, singleVars, pubTasks, pubOp, pubRequest, pubThrown>>
    /\ UNCHANGED <<batchVars, nonPubVars>>

\* handleImageSelect(id, file)
handleImageSelect(i) ==
    /\ mode = "bulk"
    /\ i \in DOMAIN drafts
    /\ ~drafts[i].image
    /\ drafts' = [drafts EXCEPT ![i].image = TRUE]
    /\ UNCHANGED <<mode, siteVars, sites, singleVars, pubTasks, pubOp, pubRequest, pubThrown>>
    /\ UNCHANGED <<batchVars, nonPubVars>>

\* variant: a published draft can be published again
PublishDisabledNotForSuccess(d) ==
    d.status = "publishing" \/ d.site = NoSite \/ d.status = "loading_doc"

\* the disabled attribute of the publish button of a draft
PublishDisabled(d) ==
    d.status = "publishing" \/ d.status = "success" \/ d.site = NoSite
    \/ d.status = "loading_doc"

\* BulkPostManager handlePublish(id) for draft i
BulkHandlePublish(i) ==
    /\ mode = "bulk"
    /\ i \in DOMAIN drafts
    /\ ~PublishDisabled(drafts[i])
    /\ LET draft == drafts[i]
           resolved == draft.site \in Range(sites)
       IN  IF draft.site = NoSite
           THEN /\ pubOp' = PublishOp("bulk", resolved, "Selecione um site primeiro", FALSE)
                /\ UNCHANGED <<drafts, pubTasks, pubRequest>>
           ELSE IF FindSite(sites, draft.site) = NoSite
           THEN /\ pubOp' = PublishOp("bulk", resolved, "", FALSE)
                /\ UNCHANGED <<drafts, pubTasks, pubRequest>>
           ELSE /\ pubOp' = PublishOp("bulk", resolved, "", TRUE)
                /\ drafts' = [drafts EXCEPT ![i].status = "publishing",
                                            ![i].errorMsg = ""]
                /\ pubTasks' = Append(pubTasks,
                                  PublishTask("bulk", i, draft.title, draft.content,
                                              draft.image, "publish"))
                /\ pubRequest' = PublishRequest(FirstAwait(draft.image),
                                                draft.title, draft.content)
    /\ UNCHANGED <<mode, siteVars, sites, singleVars, pubThrown>>
    /\ UNCHANGED <<batchVars, nonPubVars>>

\* ------------------------------------------------- publish pipelines
\* uploadWpMedia returned for pipeline k: createWpPost is called
UploadMediaReturns(k) ==
    /\ k \in DOMAIN pubTasks
    /\ pubTasks[k].pc = "media"
    /\ pubTasks' = [pubTasks EXCEPT ![k].pc = "post"]
    /\ pubRequest' = PublishRequest("post", pubTasks[k].title, pubTasks[k].content)
    /\ publishingStatus' = IF pubTasks[k].publisher = "single"
                           THEN PostingStatus(pubTasks[k].status)
                           ELSE publishingStatus
    /\ UNCHANGED <<mode, siteVars, sites, selectedSiteId, title, content,
                   imageFile, error, drafts, pubOp, pubThrown>>
    /\ UNCHANGED <<batchVars, nonPubVars>>

\* messages of the errors uploadWpMedia throws
MediaErrors == {"Erro de Autenticacao ao enviar imagem", "Falha ao enviar imagem"}
\* messages of the errors createWpPost throws
PostErrors == {"Erro 401/403: Acesso Negado"}

\* the errors the service awaited at pc can throw
ThrownAt(pc) == IF pc = "media" THEN MediaErrors ELSE PostErrors

\* variant: a generic message is shown instead of the error's
SurfacedGeneric(e) == "Falha ao publicar"

\* setError(err.message) / errorMsg: e.message
Surfaced(e) == e

\* variant: the status is left as it was when the pipeline ends
FinallyStatusKept(status) == status

\* finally: setPublishingStatus('idle')
FinallyStatus(status) == "idle"

\* createWpPost returned for pipeline k
CreatePostReturns(k) ==
    /\ k \in DOMAIN pubTasks
    /\ pubTasks[k].pc = "post"
    /\ IF pubTasks[k].publisher = "single"
       THEN /\ publishingStatus' = FinallyStatus(publishingStatus)
            /\ UNCHANGED drafts
       ELSE /\ drafts' = [drafts EXCEPT ![pubTasks[k].draft].status = "success"]
            /\ UNCHANGED publishingStatus
    /\ pubTasks' = RemoveAt(pubTasks, k)
    /\ pubThrown' = ""
    /\ UNCHANGED <<mode, siteVars, sites, selectedSiteId, title, content,
                   imageFile, error, pubOp, pubRequest>>
    /\ UNCHANGED <<batchVars, nonPubVars>>

\* uploadWpMedia or createWpPost threw e for pipeline k: the catch block
PublishCatch(k, e) ==
    /\ k \in DOMAIN pubTasks
    /\ e \in ThrownAt(pubTasks[k].pc)
    /\ IF pubTasks[k].publisher = "single"
       THEN /\ error' = Surfaced(e)
            /\ publishingStatus' = FinallyStatus(publishingStatus)
            /\ UNCHANGED drafts
       ELSE /\ drafts' = [drafts EXCEPT ![pubTasks[k].draft].status = "error",
                                       ![pubTasks[k].draft].errorMsg = Surfaced(e)]
            /\ UNCHANGED <<error, publishingStatus>>
    /\ pubTasks' = RemoveAt(pubTasks, k)
    /\ pubThrown' = e
    /\ UNCHANGED <<mode, siteVars, sites, selectedSiteId, title, content,
                   imageFile, pubOp, pubRequest>>
    /\ UNCHANGED <<batchVars, nonPubVars>>

NextPub ==
    \/ SettingsMount
    \/ handleSaveSite
    \/ \E id \in 1..MaxSites : handleDeleteSite(id)
    \/ \E a \in {<<"", "">>, <<"Post", "Post">>} : WordpressPublisherMount(a[1], a[2])
    \/ \E t \in Texts : EditPost(t, content, imageFile)
    \/ \E c \in Texts : EditPost(title, c, imageFile)
    \/ \E image \in BOOLEAN : EditPost(title, content, image)
    \/ \E id \in 1..MaxSites : SelectSite(id)
    \/ \E status \in {"publish", "draft"} : SingleHandlePublish(status)
    \/ BulkPostManagerMount
    \/ \E rows \in SeqsUpTo(BulkRows, MaxDrafts) : processRows(rows)
    \/ \E i \in 1..MaxDrafts, md \in Markdowns : DocLoaded(i, md)
    \/ \E i \in 1..MaxDrafts : DocFailed(i)
    \/ \E i \in 1..MaxDrafts, id \in 0..MaxSites : BulkSelectSite(i, id)
    \/ \E i \in 1..MaxDrafts : handleImageSelect(i)
    \/ \E i \in 1..MaxDrafts : BulkHandlePublish(i)
    \/ \E k \in DOMAIN pubTasks : UploadMediaReturns(k)
    \/ \E k \in DOMAIN pubTasks : CreatePostReturns(k)
    \/ \E k \in DOMAIN pubTasks, e \in MediaErrors \cup PostErrors : PublishCatch(k, e)

\* App with the demo flag off
InitPub == Init /\ ~isDemoMode

SpecPub == InitPub /\ [][NextPub]_vars

\* ------------------------------------- WordpressPublisher: categories
\* a category of a site
Category(site, slug) == [site |-> site, slug |-> slug]

\* what fetchWpCategories may return for a site
CategoryLists(site) ==
    {<<>>,
     <<Category(site, "news")>>,
     <<Category(site, "news"), Category(site, "uncategorized")>>}

\* cats.find(c => c.slug === 'sem-categoria' || c.slug === 'uncategorized')
\* || cats[0]
DefaultCategory(cats) ==
    LET named == {i \in DOMAIN cats : cats[i].slug \in {"sem-categoria", "uncategorized"}}
    IN  IF named # {} THEN cats[CHOOSE i \in named : \A j \in named : i <= j]
        ELSE cats[1]

\* what the steps of the category state leave alone
nonCatVars == <<batchVars, wpVars, mediaVars, keyVars, genVars, utilVars, saveVars,
                mode, siteVars, sites, title, content, imageFile, error,
                publishingStatus, drafts, pubTasks, pubOp, pubRequest, pubThrown>>

\* the site select changes to id and the effect runs fetchCats up to its
\* await
fetchCats(id) ==
    /\ mode = "wordpress"
    /\ id \in Range(sites)
    /\ id # selectedSiteId
    /\ Len(catRequests) < MaxCatRequests
    /\ selectedSiteId' = id
    /\ categories' = <<>>
    /\ selectedCategoryId' = NoCategory
    /\ isLoadingCategories' = TRUE
    /\ catRequests' = Append(catRequests, id)
    /\ UNCHANGED catPost
    /\ UNCHANGED nonCatVars

\* fetchWpCategories of run k returned cats
FetchCategoriesReturns(k, cats) ==
    /\ categories' = cats
    /\ selectedCategoryId' = IF Len(cats) > 0 THEN DefaultCategory(cats)
                             ELSE selectedCategoryId
    /\ isLoadingCategories' = FALSE
    /\ catRequests' = RemoveAt(catRequests, k)
    /\ UNCHANGED <<selectedSiteId, catPost>>
    /\ UNCHANGED nonCatVars

\* fetchWpCategories of run k threw
FetchCategoriesThrows(k) ==
    /\ isLoadingCategories' = FALSE
    /\ catRequests' = RemoveAt(catRequests, k)
    /\ UNCHANGED <<selectedSiteId, categories, selectedCategoryId, catPost>>
    /\ UNCHANGED nonCatVars

\* the category select, disabled while categories are loading
SelectCategory(c) ==
    /\ mode = "wordpress"
    /\ selectedSiteId # NoSite
    /\ ~isLoadingCategories
    /\ c \in Range(categories)
    /\ c # selectedCategoryId
    /\ selectedCategoryId' = c
    /\ UNCHANGED <<selectedSiteId, categories, isLoadingCategories, catRequests, catPost>>
    /\ UNCHANGED nonCatVars

\* categories: selectedCategoryId ? [Number(selectedCategoryId)] : []
CategoriesOfPost(selected) == IF selected # NoCategory THEN <<selected>> ELSE <<>>

\* handlePublish up to its createWpPost call: the site and the categories
\* of the request
PublishWithCategory ==
    /\ mode = "wordpress"
    /\ ~SiteMissing(FindSite(sites, selectedSiteId))
    /\ ~TextMissing(title, content)
    /\ catPost' = [site |-> FindSite(sites, selectedSiteId),
                   categories |-> CategoriesOfPost(selectedCategoryId)]
    /\ UNCHANGED <<selectedSiteId, categories, selectedCategoryId,
                   isLoadingCategories, catRequests>>
    /\ UNCHANGED nonCatVars

\* a publisher that was mounted with an article, with MaxSites stored
\* sites: the first one is selected and its categories are requested
InitCat ==
    /\ InitBatch
    /\ ~isDemoMode
    /\ InitServices
    /\ storedKeys = <<>>
    /\ envKey = ""
    /\ mode = "wordpress"
    /\ storedSites = [i \in 1..MaxSites |-> i]
    /\ wpSites = <<>>
    /\ nextSiteId = MaxSites
    /\ sites = storedSites
    /\ selectedSiteId = storedSites[1]
    /\ title = "Post"
    /\ content = "Post"
    /\ imageFile = FALSE
    /\ error = ""
    /\ publishingStatus = "idle"
    /\ drafts = <<>>
    /\ pubTasks = <<>>
    /\ pubOp = [publisher |-> "", resolved |-> TRUE, shown |-> "", sent |-> FALSE]
    /\ pubRequest = [kind |-> "none", title |-> "", content |-> ""]
    /\ pubThrown = ""
    /\ categories = <<>>
    /\ selectedCategoryId = NoCategory
    /\ isLoadingCategories = TRUE
    /\ catRequests = <<storedSites[1]>>
    /\ catPost = NoCatPost

NextCat ==
    \/ \E id \in 1..MaxSites : fetchCats(id)
    \/ \E k \in DOMAIN catRequests :
           \E cats \in CategoryLists(catRequests[k]) : FetchCategoriesReturns(k, cats)
    \/ \E k \in DOMAIN catRequests : FetchCategoriesThrows(k)
    \/ \E c \in Range(categories) : SelectCategory(c)
    \/ PublishWithCategory

SpecCat == InitCat /\ [][NextCat]_vars

\* ------------------------------------------------- updateSheetCell
\* the columnLetter argument; "undefined" stands for a call without it
ColumnArgs == {"undefined", "F", "G"}
SheetIds == {"sheet-id", "demo-sheet-id"}
CellValues == {"https://docs.google.com/document/d/1", "https://docs.google.com/demo-link"}

\* the decimal digits of n, as template literals print a number
RECURSIVE Digits(_)
Digits(n) ==
    LET digit == <<"0", "1", "2", "3", "4", "5", "6", "7", "8", "9">>[(n % 10) + 1]
    IN  IF n < 10 THEN <<digit>> ELSE Append(Digits(n \div 10), digit)

\* the default value of the parameter columnLetter
ColumnLetter(arg) == IF arg = "undefined" THEN "F" ELSE arg

\* variant: the data array is taken to start at sheet row 1
SheetRowNoHeader(rowIndex) == rowIndex + 1

\* const sheetRow = rowIndex + 2
SheetRow(rowIndex) == rowIndex + 2

\* const range = `${columnLetter}${sheetRow}`
CellRange(columnLetter, rowIndex) == <<columnLetter>> \o Digits(SheetRow(rowIndex))

\* one call of updateSheetCell: a single PUT of values [[value]] to the
\* range; it throws when the response is not ok
updateSheetCell(spreadsheetId, rowIndex, value, columnArg, ok) ==
    /\ sheetPut' = [spreadsheetId |-> spreadsheetId, rowIndex |-> rowIndex,
                    columnLetter |-> columnArg, value |-> value,
                    range |-> CellRange(ColumnLetter(columnArg), rowIndex),
                    values |-> << <<value>> >>,
                    outcome |-> IF ok THEN "returned" ELSE "Erro ao atualizar a planilha"]
    /\ UNCHANGED <<cleanUrl, roundTrip>>
    /\ UNCHANGED nonUtilVars

NextCell ==
    \E id \in SheetIds, rowIndex \in 0..MaxRowIndex, value \in CellValues,
       columnArg \in ColumnArgs, ok \in BOOLEAN :
        updateSheetCell(id, rowIndex, value, columnArg, ok)

SpecCell == Init /\ [][NextCell]_vars

\* ------------------------------------------------------- cleanWpUrl
\* A URL is the sequence of its pieces, each piece a run of characters:
\* blanks, a protocol prefix, a host, a slash, a path segment.
Blank == " "
Protocols == {"https://", "http://", "HTTP://"}
Host == "example.com"
WpAdmin == "wp-admin"
WpLogin == "wp-login.php"
WpJson == "wp-json"
PathPieces == {"/", WpAdmin, WpLogin, WpJson, "blog"}

\* what a user can have typed as the URL of a site: blanks around an
\* optional protocol, the host and a path
TypedUrls ==
    {lead \o proto \o <<Host>> \o path \o trail :
        lead \in {<<>>, <<Blank>>}, proto \in {<<>>} \cup {<<p>> : p \in Protocols},
        path \in SeqsUpTo(PathPieces, MaxPathLen), trail \in {<<>>, <<Blank>>}}

\* String.prototype.trim on a URL
RECURSIVE TrimUrl(_)
TrimUrl(u) ==
    IF u = <<>> THEN u
    ELSE IF Head(u) = Blank THEN TrimUrl(Tail(u))
    ELSE IF u[Len(u)] = Blank THEN TrimUrl(SubSeq(u, 1, Len(u) - 1))
    ELSE u

\* /^https?:\/\//i.test(clean)
HasProtocol(u) == u # <<>> /\ Head(u) \in Protocols

\* clean = 'https://' + clean, when no protocol is there
WithProtocol(u) == IF HasProtocol(u) THEN u ELSE <<"https://">> \o u

\* clean.replace(/\/$/, ''): one slash at the end is removed
NoTrailingSlash(u) ==
    IF u # <<>> /\ u[Len(u)] = "/" THEN SubSeq(u, 1, Len(u) - 1) ELSE u

\* the positions at which the pattern /\/<piece>.*$/ matches
MatchesOf(u, piece) == {i \in 1..(Len(u) - 1) : u[i] = "/" /\ u[i + 1] = piece}

\* clean.replace(/\/<piece>.*$/, ''): the leftmost match and all that
\* follows it are removed
CutFrom(u, piece) ==
    IF MatchesOf(u, piece) = {} THEN u
    ELSE SubSeq(u, 1, (CHOOSE i \in MatchesOf(u, piece) :
                          \A k \in MatchesOf(u, piece) : i <= k) - 1)

cleanWpUrl(url) ==
    CutFrom(CutFrom(CutFrom(NoTrailingSlash(WithProtocol(TrimUrl(url))),
                            WpAdmin), WpLogin), WpJson)

\* cleanWpUrl is applied to one typed URL
CleanWpUrlCall(url) ==
    /\ cleanUrl = NoCleanUrl
    /\ cleanUrl' = [url |-> url, clean |-> cleanWpUrl(url)]
    /\ UNCHANGED <<sheetPut, roundTrip>>
    /\ UNCHANGED nonUtilVars

NextUrl == \E url \in TypedUrls : CleanWpUrlCall(url)

SpecUrl == Init /\ [][NextUrl]_vars

\* ------------------------------------- markdownToHtml, htmlToMarkdown
\* A document is a sequence of pieces.  A piece has a kind k and up to
\* two texts a, b: "#" is a heading marker of level a ("# ", "## "),
\* "text" a run of plain text, "bold" the span **a**, "link" the span
\* [a](b), "nl" a newline; "ho"/"hc" are <h a> and </h a>, "po"/"pc"
\* <p> and </p>, "br" <br>, "strong" <strong>a</strong> and "anchor"
\* <a href="a" ...>b</a>.
Piece(k, a, b) == [k |-> k, a |-> a, b |-> b]
Nl == Piece("nl", "", "")
Marker(level) == Piece("#", level, "")
Text(t) == Piece("text", t, "")

\* the blocks of the documents that are converted
MdBlocks ==
    [h1 |-> <<Marker("1"), Text("Title")>>,
     h2 |-> <<Marker("2"), Text("Sub")>>,
     bold |-> <<Text("Text"), Piece("bold", "bold", "")>>,
     link |-> <<Piece("link", "site", "https://e.com")>>]

BlockNames == {"h1", "h2", "bold", "link"}

\* one to MaxBlankLines + 1 newlines stand between two blocks
Separators == 1..(MaxBlankLines + 1)

RECURSIVE Newlines(_)
Newlines(n) == IF n = 0 THEN <<>> ELSE <<Nl>> \o Newlines(n - 1)

\* the markdown documents with one H1, one H2, one bold span and one link:
\* the four blocks in any order
MdDocuments ==
    {MdBlocks[o[1]] \o Newlines(n[1]) \o MdBlocks[o[2]] \o Newlines(n[2]) \o
     MdBlocks[o[3]] \o Newlines(n[3]) \o MdBlocks[o[4]] :
        o \in {f \in [1..4 -> BlockNames] :
                  \A i, j \in 1..4 : f[i] = f[j] => i = j},
        n \in [1..3 -> Separators]}

\* the piece at i is the first of its line
AtLineStart(s, i) == i = 1 \/ s[i - 1].k = "nl"

\* html.replace(/^# (.*$)/gim, '<h1>$1</h1>') and the like for ##, ###,
\* ####: a marker at the start of a line opens the tag, the end of the line
\* closes it; open is the level of the heading the scan is in, or ""
RECURSIVE HeadingTags(_, _, _)
HeadingTags(s, i, open) ==
    LET close == IF open = "" THEN <<>> ELSE <<Piece("hc", open, "")>>
    IN  IF i > Len(s) THEN close
        ELSE IF s[i].k = "nl" THEN close \o <<Nl>> \o HeadingTags(s, i + 1, "")
        ELSE IF s[i].k = "#" /\ AtLineStart(s, i)
            THEN <<Piece("ho", s[i].a, "")>> \o HeadingTags(s, i + 1, s[i].a)
        ELSE <<s[i]>> \o HeadingTags(s, i + 1, open)

\* **a** becomes <strong>a</strong>; [$1]($2) becomes
\* <a href="$2" target="_blank" rel="noopener noreferrer">$1</a>
InlineTag(p) ==
    IF p.k = "bold" THEN Piece("strong", p.a, "")
    ELSE IF p.k = "link" THEN Piece("anchor", p.b, p.a)
    ELSE p

InlineTags(s) == [i \in 1..Len(s) |-> InlineTag(s[i])]

\* the number of newlines that start at i
RECURSIVE NlRun(_, _)
NlRun(s, i) ==
    IF i <= Len(s) /\ s[i].k = "nl" THEN 1 + NlRun(s, i + 1) ELSE 0

\* html.replace(/\n\s*\n/g, '</p><p>'): a run of two or more newlines
\* becomes one paragraph break
RECURSIVE ParagraphBreaks(_, _)
ParagraphBreaks(s, i) ==
    IF i > Len(s) THEN <<>>
    ELSE IF NlRun(s, i) >= 2
        THEN <<Piece("pc", "", ""), Piece("po", "", "")>> \o
             ParagraphBreaks(s, i + NlRun(s, i))
    ELSE <<s[i]>> \o ParagraphBreaks(s, i + 1)

\* a piece that is written with a tag
IsTag(p) == p.k \in {"ho", "hc", "po", "pc", "br", "strong", "anchor"}

\* if (!html.trim().startsWith('<')) html = '<p>' + html;
\* if (!html.trim().endsWith('>')) html = html + '</p>'
Wrapped(s) ==
    (IF s # <<>> /\ IsTag(s[1]) THEN <<>> ELSE <<Piece("po", "", "")>>) \o s \o
    (IF s # <<>> /\ IsTag(s[Len(s)]) THEN <<>> ELSE <<Piece("pc", "", "")>>)

\* html.replace(/\n/g, '<br>')
LineBreaks(s) ==
    [i \in 1..Len(s) |-> IF s[i].k = "nl" THEN Piece("br", "", "") ELSE s[i]]

markdownToHtml(markdown) ==
    IF markdown = <<>> THEN <<>>
    ELSE LineBreaks(Wrapped(ParagraphBreaks(
             InlineTags(HeadingTags(markdown, 1, "")), 1)))

\* the position of the closing tag closes that /<tag[^>]*>(.*?)<\/tag>/
\* finds for the opening tag at i, or 0: the nearest one, with no newline
\* before it
ClosingOf(s, i, closes) ==
    LET after == {j \in (i + 1)..Len(s) : s[j] = closes}
        j == CHOOSE j \in after : \A k \in after : j <= k
    IN  IF after = {} THEN 0
        ELSE IF \E k \in (i + 1)..(j - 1) : s[k].k = "nl" THEN 0
        ELSE j

\* md.replace(/<tag[^>]*>(.*?)<\/tag>/gi, before + '$1' + after)
RECURSIVE TagToText(_, _, _, _, _, _)
TagToText(s, i, opens, closes, before, after) ==
    IF i > Len(s) THEN <<>>
    ELSE IF s[i] = opens /\ ClosingOf(s, i, closes) # 0
        THEN before \o SubSeq(s, i + 1, ClosingOf(s, i, closes) - 1) \o after \o
             TagToText(s, ClosingOf(s, i, closes) + 1, opens, closes,
                       before, after)
    ELSE <<s[i]>> \o TagToText(s, i + 1, opens, closes, before, after)

\* <hN>$1</hN> becomes N times '#', a blank, $1 and two newlines
HeadingBack(s, level) ==
    TagToText(s, 1, Piece("ho", level, ""), Piece("hc", level, ""),
              <<Marker(level)>>, <<Nl, Nl>>)

\* <strong>$1</strong> becomes **$1**; <a ... href="$1" ...>$2</a> becomes
\* [$2]($1)
InlineBack(p) ==
    IF p.k = "strong" THEN Piece("bold", p.a, "")
    ELSE IF p.k = "anchor" THEN Piece("link", p.b, p.a)
    ELSE p

InlinesBack(s) == [i \in 1..Len(s) |-> InlineBack(s[i])]

\* md.replace(/<p[^>]*>(.*?)<\/p>/gi, '$1\n\n')
ParagraphBack(s) ==
    TagToText(s, 1, Piece("po", "", ""), Piece("pc", "", ""), <<>>, <<Nl, Nl>>)

\* md.replace(/<br\s*\/?>/gi, '\n')
BreaksBack(s) == [i \in 1..Len(s) |-> IF s[i].k = "br" THEN Nl ELSE s[i]]

\* md.replace(/\n\s*\n\s*\n/g, '\n\n'): a run of three or more newlines
\* becomes two
RECURSIVE CollapseNewlines(_, _)
CollapseNewlines(s, i) ==
    IF i > Len(s) THEN <<>>
    ELSE IF NlRun(s, i) >= 3
        THEN <<Nl, Nl>> \o CollapseNewlines(s, i + NlRun(s, i))
    ELSE <<s[i]>> \o CollapseNewlines(s, i + 1)

\* md.trim()
RECURSIVE TrimMd(_)
TrimMd(s) ==
    IF s # <<>> /\ Head(s).k = "nl" THEN TrimMd(Tail(s))
    ELSE IF s # <<>> /\ s[Len(s)].k = "nl" THEN TrimMd(SubSeq(s, 1, Len(s) - 1))
    ELSE s

htmlToMarkdown(html) ==
    TrimMd(CollapseNewlines(BreaksBack(ParagraphBack(InlinesBack(
        HeadingBack(HeadingBack(html, "1"), "2")))), 1))

\* one document is converted to HTML and the HTML back to markdown
ConvertRoundTrip(markdown) ==
    /\ roundTrip = NoRoundTrip
    /\ roundTrip' = [markdown |-> markdown,
                     html |-> markdownToHtml(markdown),
                     back |-> htmlToMarkdown(markdownToHtml(markdown))]
    /\ UNCHANGED <<sheetPut, cleanUrl>>
    /\ UNCHANGED nonUtilVars

NextMd == \E markdown \in MdDocuments : ConvertRoundTrip(markdown)

SpecMd == Init /\ [][NextMd]_vars

\* ======================================================== properties
Ids(q) == {q[i].id : i \in 1..Len(q)}

\* no job queued and no pipeline suspended
Drained == queue = <<>> /\ tasks = <<>>

\* the started jobs that belong to the latest import, in start order
StartedOfLastImport ==
    SelectSeq(started, LAMBDA j : j \in Ids(lastImport.jobs))

NoDuplicates(s) == \A i, j \in 1..Len(s) : i # j => s[i] # s[j]

\* C1: a non-empty list imported while the engine was idle (empty queue, no
\* job in flight) is started in input order, and the step that empties the
\* queue leaves processed = total = number of imported jobs, whatever the
\* outcome of each job.
C1_IdleImportRunsInOrder ==
    /\ [](lastImport.idle =>
            /\ Len(StartedOfLastImport) <= Len(lastImport.jobs)
            /\ \A k \in 1..Len(StartedOfLastImport) :
                  StartedOfLastImport[k] = lastImport.jobs[k].id)
    /\ [][(lastImport.idle /\ queue # <<>> /\ queue' = <<>>) =>
            /\ batchProgress'.processed = Len(lastImport.jobs)
            /\ batchProgress'.total = Len(lastImport.jobs)
            /\ Len(StartedOfLastImport) = Len(lastImport.jobs)]_vars

\* C1 witness: a three-job batch imported while idle has drained with a
\* failure among its jobs
C1_Witness ==
    /\ lastImport.idle
    /\ Len(lastImport.jobs) = 3
    /\ Drained
    /\ batchProgress.processed = 3
    /\ failed \cap Ids(lastImport.jobs) # {}
    /\ Len(articles) > 0

\* C2: at most one pipeline is in flight at any moment.
C2_SingleInFlight == Len(tasks) <= 1

\* C2 witness: a job is in flight with another one queued behind it and the
\* effect has been re-invoked since the start without starting anything
C2_Witness == Len(tasks) = 1 /\ Len(queue) > 1 /\ ~effectDue /\ isProcessingBatch

\* C3: an import that arrives while a batch is active appends its jobs to
\* the tail of the queue: the jobs queued before are all kept, in order,
\* ahead of the new ones.
C3_ImportAppendsToTail ==
    [][(nextId' # nextId /\ (queue # <<>> \/ tasks # <<>>)) =>
         /\ Len(queue') = Len(queue) + (nextId' - nextId)
         /\ SubSeq(queue', 1, Len(queue)) = queue]_vars

\* C4: an enqueue of k jobs raises total by k; processed and the log are
\* reset only when no batch was active, and kept otherwise.
C4_ImportMergesProgress ==
    [][nextId' # nextId =>
         /\ batchProgress'.total = batchProgress.total + (nextId' - nextId)
         /\ IF queue # <<>> \/ tasks # <<>>
            THEN /\ batchProgress'.processed = batchProgress.processed
                 /\ Len(batchProgress'.logs) >= Len(batchProgress.logs)
                 /\ SubSeq(batchProgress'.logs, 1, Len(batchProgress.logs))
                      = batchProgress.logs
            ELSE /\ batchProgress'.processed = 0
                 /\ Len(batchProgress'.logs) <= 1]_vars

\* C5: a job whose pipeline fails gets an error line in the log, is removed
\* from the queue and counted as processed exactly once, and the consumer is
\* left ready to start the job that follows: whenever a job is queued and
\* none is in flight the guard is released and a run of the effect is due.
C5_FailureNeverStopsBatch ==
    /\ [][\A i \in DOMAIN tasks :
            LET item == tasks[i].item
            IN  /\ (item.id \notin failed /\ item.id \in failed') =>
                      /\ batchProgress'.logs # <<>>
                      /\ batchProgress'.logs[Len(batchProgress'.logs)] = LogError(item.keyword)
                /\ (item.id \in failed' /\ Len(tasks') < Len(tasks)) =>
                      /\ batchProgress'.processed = batchProgress.processed + 1
                      /\ item.id \notin Ids(queue')
                      /\ ~isProcessingBatch']_vars
    /\ []((queue # <<>> /\ tasks = <<>>) => (effectDue /\ ~isProcessingBatch))

\* C5 witness: the first job of a batch failed and the job behind it was
\* started afterwards
C5_Witness ==
    /\ Len(started) >= 2
    /\ started[1] \in failed
    /\ started[2] \notin failed
    /\ batchProgress.processed >= 1

\* the A, B, C scenario: three rows imported while idle, only B failed,
\* the batch has drained and the panel is still shown
ScenarioABC ==
    /\ lastImport.idle
    /\ Len(lastImport.jobs) = 3
    /\ lastImport.jobs[1].keyword = "A"
    /\ lastImport.jobs[2].keyword = "B"
    /\ lastImport.jobs[3].keyword = "C"
    /\ Drained
    /\ batchProgress.isActive
    /\ failed \cap Ids(lastImport.jobs) = {lastImport.jobs[2].id}

\* C6: once the engine has drained, history holds exactly one article per
\* started job whose pipeline succeeded and none for a job that failed; in
\* the A, B, C scenario total = processed = 3, two articles were added and
\* the log holds an error line naming B.
C6_HistoryMatchesSuccesses ==
    /\ Drained =>
          /\ Range(articles) = Range(started) \ failed
          /\ NoDuplicates(articles)
    /\ ScenarioABC =>
          /\ batchProgress.total = 3
          /\ batchProgress.processed = 3
          /\ Cardinality(Range(articles) \cap Ids(lastImport.jobs)) = 2
          /\ \E k \in 1..Len(batchProgress.logs) : batchProgress.logs[k] = LogError("B")

\* C6 witness: the A, B, C scenario itself
C6_Witness == ScenarioABC /\ Len(articles) >= 2

\* C7: no job's pipeline is started twice.
C7_AtMostOnceAttempt == NoDuplicates(started)

\* C7 witness: a failed job has left the queue and later jobs were started
C7_Witness ==
    /\ Len(started) >= 3
    /\ started[1] \in failed
    /\ Drained

\* C8: in non-demo mode, when a job finishes and another job is left to run,
\* the cool-down has been waited before the finished job is dequeued.
C8_CoolDownBeforeNext ==
    [][(/\ Len(tasks') < Len(tasks)
        /\ ~isDemoMode
        /\ \A i \in DOMAIN tasks : ~tasks[i].demo
        /\ queue' # <<>>) =>
         \E i \in DOMAIN tasks : tasks[i].pc = "cooldown"]_vars

\* C9: dismissing the panel rewrites the Batch Progress record only: the
\* queue, the pipelines in flight, the in-flight guard and the history are
\* what they were.
C9_DismissKeepsData ==
    [][(batchProgress.isActive /\ ~batchProgress'.isActive) =>
         /\ batchProgress' = [isActive |-> FALSE, total |-> 0, processed |-> 0,
                              currentKeyword |-> batchProgress.currentKeyword,
                              logs |-> <<>>]
         /\ UNCHANGED <<queue, tasks, articles, isProcessingBatch, batchToken,
                        isDemoMode>>]_vars

\* C9 witness: the panel has been dismissed and the articles of the batch
\* are in history
C9_Witness ==
    /\ ~batchProgress.isActive
    /\ batchProgress.total = 0
    /\ batchProgress.logs = <<>>
    /\ Len(articles) >= 2

\* C10: a 401 or 403 at any tier ends the call at once with the
\* authentication error naming that tier; no later tier is requested.
C10_AuthFailureIsTerminal ==
    \A k \in 1..Len(wpCalls) :
        wpCalls[k].status \in {401, 403} =>
            /\ Len(wpCalls) = k
            /\ wpPc = NumTiers + 1
            /\ wpResult = WpError("Acesso Negado", wpCalls[k].tier, 0)

\* C10 witness: tiers 1 and 2 failed otherwise and tier 3 answered 403
C10_Witness ==
    /\ Len(wpCalls) = 3
    /\ wpCalls[3].status = 403
    /\ wpResult.status = "thrown"

\* the four URLs in the order the contract lists them
TierOrder == <<"base/wp-json/wp/v2", "base/?rest_route=/wp/v2",
               "relay?base/wp-json/wp/v2", "relay?base/?rest_route=/wp/v2">>

\* the requests were issued in tier order, one per tier
InTierOrder(calls) ==
    /\ Len(calls) <= 4
    /\ \A k \in 1..Len(calls) : calls[k].tier = k /\ calls[k].url = TierOrder[k]

\* C11 as stated: requests go out in tier order, at most one per tier, tier
\* k+1 only after tier k ended in a non-2xx answer other than 401/403 or in
\* a network failure, and the call stops at the first 2xx answer.
C11_NextTierOnlyAfterNon2xx ==
    /\ InTierOrder(wpCalls)
    /\ \A k \in 1..Len(wpCalls) :
          /\ k < Len(wpCalls) =>
                /\ wpCalls[k].status \notin {401, 403}
                /\ ~(wpCalls[k].status >= 200 /\ wpCalls[k].status <= 299)
          /\ (wpCalls[k].status >= 200 /\ wpCalls[k].status <= 299) =>
                /\ Len(wpCalls) = k
                /\ wpPc = NumTiers + 1

\* C12: a 404 at tier 1 is not terminal; with a 200 and a body at tier 2
\* the call returns that body after exactly two requests.
C12_Tier1NotFoundFallsThrough ==
    /\ (Len(wpCalls) = 1 /\ wpCalls[1].status = 404) =>
          /\ wpPc = 2
          /\ wpResult.status = "none"
    /\ (/\ Len(wpCalls) >= 2
        /\ wpCalls[1].status = 404
        /\ wpCalls[2].status = 200
        /\ wpCalls[2].json) =>
          /\ Len(wpCalls) = 2
          /\ wpPc = NumTiers + 1
          /\ wpResult = WpBody(2, [status |-> 200, json |-> TRUE])

\* C12 witness: 404 at tier 1, 200 at tier 2, call returned
C12_Witness ==
    /\ Len(wpCalls) = 2
    /\ wpCalls[1].status = 404
    /\ wpCalls[2].status = 200
    /\ wpResult.status = "returned"

\* C13: when all four tiers failed without an authentication failure the
\* error thrown is the synthesized diagnostic and quotes the URL requested
\* at tier 4, whatever the kinds of the failures.
C13_DiagnosticWithFinalUrl ==
    (/\ wpPc = NumTiers + 1
     /\ Len(wpCalls) = NumTiers
     /\ wpResult.status = "thrown"
     /\ wpCalls[NumTiers].status \notin {401, 403}) =>
        /\ wpResult.kind = "FALHA CRITICA (CORS/502)"
        /\ wpResult.url = wpCalls[NumTiers].url

\* C14: in uploadWpMedia a 401 or 403 at any tier is terminal, every other
\* failure falls through, in the tier order of the JSON client.
C14_MediaSameClassification ==
    /\ InTierOrder(mediaCalls)
    /\ \A k \in 1..Len(mediaCalls) :
          mediaCalls[k].status \in {401, 403} =>
             /\ Len(mediaCalls) = k
             /\ mediaPc = NumTiers + 1
             /\ mediaResult.status = "thrown"

\* the requests made so far used the candidates in list order
GenInListOrder ==
    /\ Len(genAttempts) <= Len(genKeys)
    /\ \A j \in 1..Len(genAttempts) : genAttempts[j].key = genKeys[j]

\* the answer of attempt j carried non-empty text
GenTextAt(j) ==
    genAttempts[j].answer.kind = "response" /\ genAttempts[j].answer.text # ""

\* C15: the candidates are tried in list order; the first attempt with
\* non-empty text ends the call, its text is returned and no later
\* credential is used, so a success at position i costs exactly i requests
\* (N requests when the first N-1 throw and the last succeeds).
C15_FirstTextShortCircuits ==
    /\ GenInListOrder
    /\ \A j \in 1..Len(genAttempts) :
          /\ j < Len(genAttempts) => ~GenTextAt(j)
          /\ GenTextAt(j) =>
                /\ Len(genAttempts) = j
                /\ genPc = "done"
                /\ genResult.status = "returned"
                /\ genResult.text = genAttempts[j].answer.text
    /\ genResult.status = "returned" =>
          /\ Len(genAttempts) >= 1
          /\ GenTextAt(Len(genAttempts))

\* C15 witness: several credentials, every one but the last threw, the
\* last one succeeded
C15_Witness ==
    /\ genPc = "done"
    /\ Len(genKeys) >= 2
    /\ Len(genAttempts) = Len(genKeys)
    /\ \A j \in 1..(Len(genAttempts) - 1) : genAttempts[j].answer.kind = "throws"
    /\ genResult.status = "returned"

\* C16: with an empty candidate list the call fails at once with the
\* configuration error and makes no provider request.
C16_NoKeysFailsWithoutRequest ==
    (genPc # "idle" /\ genKeys = <<>>) =>
        /\ genPc = "done"
        /\ genAttempts = <<>>
        /\ genResult.status = "thrown"
        /\ genResult.message = ConfigError

\* C16 witness: a call made with nothing stored and a blank environment key
C16_Witness ==
    /\ genPc = "done"
    /\ genKeys = <<>>
    /\ storedKeys = <<>>
    /\ envKey = " "

\* the message of the failure of attempt j
GenFailureMessage(j) ==
    IF genAttempts[j].answer.kind = "throws" THEN genAttempts[j].answer.message
    ELSE EmptyResponse

\* C17: when every credential failed, by a thrown provider error or by an
\* empty text, the call throws an error with the message of the failure of
\* the last credential of the list.
C17_LastFailureIsRaised ==
    (/\ genPc = "done"
     /\ genKeys # <<>>
     /\ genResult.status # "returned") =>
        /\ Len(genAttempts) = Len(genKeys)
        /\ \A j \in 1..Len(genAttempts) : ~GenTextAt(j)
        /\ genResult.status = "thrown"
        /\ genResult.at = Len(genKeys)
        /\ genResult.message = GenFailureMessage(Len(genKeys))

\* C17 witness: the first credential threw, the last one answered with an
\* empty text, and the call has thrown
C17_Witness ==
    /\ genPc = "done"
    /\ Len(genKeys) >= 2
    /\ genAttempts[1].answer.kind = "throws"
    /\ genAttempts[Len(genKeys)].answer.kind = "response"
    /\ genResult.status = "thrown"

C19_UnresolvedSiteIsRefused ==
    (pubOp.publisher # "" /\ ~pubOp.resolved) =>
        /\ ~pubOp.sent
        /\ pubOp.shown # ""

\* C19 witness: a site record was created and deleted again, and the
\* publish operation made then, without resolvable site, was refused with
\* a message
C19_Witness ==
    /\ nextSiteId > 0
    /\ storedSites = <<>>
    /\ pubOp.publisher = "single"
    /\ ~pubOp.resolved
    /\ ~pubOp.sent
    /\ error = "Selecione um site para publicar"
    /\ pubRequest.kind = "none"

\* C20: no post-creation or media request is issued with an empty title or
\* an empty content, in either publisher.
C20_NoRequestWithEmptyText ==
    pubRequest.kind # "none" =>
        /\ Trim(pubRequest.title) # ""
        /\ Trim(pubRequest.content) # ""

\* ---------------------------------------------------------------- C21
\* pipeline k of the current state ends in this step (the step is not a
\* change of screen, which drops every pipeline at once)
EndsNow(k) ==
    /\ mode' = mode
    /\ k \in DOMAIN pubTasks
    /\ Len(pubTasks') = Len(pubTasks) - 1
    /\ pubTasks' = RemoveAt(pubTasks, k)

\* the pipeline of task t was already running before this step
RanBefore(t) ==
    \E j \in DOMAIN pubTasks :
        pubTasks[j].publisher = t.publisher /\ pubTasks[j].draft = t.draft

\* what the user sees of the message m for the pipeline that was task t
SurfacedNext(t, m) ==
    IF t.publisher = "single"
    THEN error' = m
    ELSE drafts'[t.draft].status = "error" /\ drafts'[t.draft].errorMsg = m

C21_Step ==
    /\ \A k \in DOMAIN pubTasks' :
          (pubTasks'[k].image /\ pubTasks'[k].pc = "post")
              => /\ RanBefore(pubTasks'[k])
                 /\ \A j \in DOMAIN pubTasks :
                       (/\ pubTasks[j].publisher = pubTasks'[k].publisher
                        /\ pubTasks[j].draft = pubTasks'[k].draft
                        /\ pubTasks[j].pc = "media")
                           => pubThrown' = pubThrown
    /\ \A k \in DOMAIN pubTasks :
          (pubTasks[k].pc = "media" /\ EndsNow(k))
              => /\ pubRequest' = pubRequest
                 /\ pubThrown' \in MediaErrors
                 /\ SurfacedNext(pubTasks[k], pubThrown')

\* C21: a pipeline with an image attached never waits for createWpPost
\* before its uploadWpMedia call has returned (it does not start at the
\* post, and it moves from the upload to the post in a step that throws
\* nothing); when the upload throws, the pipeline ends without any
\* createWpPost call and the message shown is the upload's
C21_MediaBeforePost == [][C21_Step]_vars

\* a single-post publish whose upload failed: the upload's message is
\* shown and the upload is the last request that was made
C21_Witness ==
    /\ mode = "wordpress"
    /\ pubThrown \in MediaErrors
    /\ error = pubThrown
    /\ pubRequest.kind = "media"
    /\ pubOp.sent
    /\ pubTasks = <<>>

\* ---------------------------------------------------------------- C22
\* the status changes the claim allows
DraftTransitions ==
    {<<"loading_doc", "idle">>, <<"loading_doc", "error">>,
     <<"idle", "publishing">>, <<"error", "publishing">>,
     <<"publishing", "success">>, <<"publishing", "error">>}

\* a publish pipeline of draft i waits in the list ts
PipelineOf(ts, i) ==
    \E k \in DOMAIN ts : ts[k].publisher = "bulk" /\ ts[k].draft = i

C22_Step ==
    (mode = "bulk" /\ mode' = "bulk")
        => \A i \in DOMAIN drafts :
              /\ i \in DOMAIN drafts'
              /\ \/ drafts'[i].status = drafts[i].status
                 \/ <<drafts[i].status, drafts'[i].status>> \in DraftTransitions
              /\ drafts[i].status = "success"
                    => /\ drafts'[i].status = "success"
                       /\ ~PipelineOf(pubTasks, i)
                       /\ ~PipelineOf(pubTasks', i)

FailsNow(k) ==
    /\ EndsNow(k)
    /\ pubTasks[k].publisher = "bulk"
    /\ \/ pubTasks[k].pc = "media"
       \/ drafts'[pubTasks[k].draft].status # "success"

C23_Step ==
    \A k \in DOMAIN pubTasks :
        FailsNow(k)
            => LET d == drafts'[pubTasks[k].draft]
               IN  /\ d.status = "error"
                   /\ pubThrown' \in ThrownAt(pubTasks[k].pc)
                   /\ d.errorMsg = pubThrown'
                   /\ d.site # NoSite => ~PublishDisabled(d)

\* C23: whenever uploadWpMedia or createWpPost throws for a bulk draft,
\* the step leaves the draft in status error with errorMsg equal to the
\* thrown message, and the publish button of the draft is enabled again
C23_FailureIsShownAndRetryable == [][C23_Step]_vars

\* a bulk draft whose publish failed and that shows the thrown message
C23_Witness ==
    /\ mode = "bulk"
    /\ pubThrown \in MediaErrors \cup PostErrors
    /\ \E i \in DOMAIN drafts :
          /\ drafts[i].status = "error"
          /\ drafts[i].errorMsg = pubThrown
          /\ ~PublishDisabled(drafts[i])

\* ---------------------------------------------------------------- C24
\* the pipelines of the single-post publisher waiting at pc
SingleWaiting(pc) ==
    {k \in DOMAIN pubTasks :
        pubTasks[k].publisher = "single" /\ pubTasks[k].pc = pc}

\* C24: the status of the single-post publisher is uploading_img exactly
\* while its uploadWpMedia call is pending, publishing or drafting (as the
\* user asked) exactly while its createWpPost call is pending, and idle,
\* with the publish buttons enabled, whenever no call is pending
C24_StatusFollowsPipeline ==
    /\ publishingStatus = "uploading_img" <=> SingleWaiting("media") # {}
    /\ publishingStatus \in {"publishing", "drafting"} <=> SingleWaiting("post") # {}
    /\ \A k \in SingleWaiting("post") :
          publishingStatus = IF pubTasks[k].status = "publish"
                             THEN "publishing" ELSE "drafting"
    /\ (SingleWaiting("media") \cup SingleWaiting("post") = {})
          <=> publishingStatus = "idle"

\* a single-post publish that has ended with a failure: the status is idle
\* again and the thrown message is shown
C24_Witness ==
    /\ mode = "wordpress"
    /\ pubOp.publisher = "single" /\ pubOp.sent
    /\ pubThrown \in MediaErrors \cup PostErrors
    /\ error = pubThrown
    /\ publishingStatus = "idle"

\* ---------------------------------------------------------------- C25
\* the number a sequence of decimal digits denotes
RECURSIVE DigitsValue(_)
DigitsValue(ds) ==
    IF ds = <<>> THEN 0
    ELSE 10 * DigitsValue(SubSeq(ds, 1, Len(ds) - 1))
         + CHOOSE d \in 0..9 : Digits(d) = <<ds[Len(ds)]>>

\* C25: every updateSheetCell call puts a 1 x 1 block of values to a range
\* that is one cell: the given column letter, F when none was given,
\* followed by the decimal row number rowIndex + 2; rowIndex 0 without a
\* column addresses F2 and rowIndex 5 addresses F7
C25_CellAddress ==
    sheetPut.outcome # "none"
        => /\ Len(sheetPut.values) = 1 /\ Len(sheetPut.values[1]) = 1
           /\ sheetPut.values[1][1] = sheetPut.value
           /\ sheetPut.range[1] = (IF sheetPut.columnLetter = "undefined"
                                   THEN "F" ELSE sheetPut.columnLetter)
           /\ DigitsValue(Tail(sheetPut.range)) = sheetPut.rowIndex + 2
           /\ (sheetPut.columnLetter = "undefined" /\ sheetPut.rowIndex = 0)
                 => sheetPut.range = <<"F", "2">>
           /\ (sheetPut.columnLetter = "undefined" /\ sheetPut.rowIndex = 5)
                 => sheetPut.range = <<"F", "7">>

\* updateSheetCell was called for rowIndex 5 without a column: cell F7
C25_Witness ==
    /\ sheetPut.outcome = "returned"
    /\ sheetPut.columnLetter = "undefined"
    /\ sheetPut.rowIndex = 5
    /\ sheetPut.range = <<"F", "7">>

\* ---------------------------------------------------------------- C26
\* the updateSheetCell call of a pipeline: updateSheetCell(batchToken,
\* item.sheetId, item.rowIndex, driveUrl), without a column argument
WritebackRequest(t) ==
    [spreadsheetId |-> t.item.sheetId,
     range |-> CellRange(ColumnLetter("undefined"), t.item.rowIndex)]

\* the 1-based position, in the imported range, of the row a job was
\* created from: the keywords of the model name their position
SourceRowOf(job) ==
    IF job.keyword \in Range(DEMO_ROWS)
    THEN CHOOSE i \in DOMAIN DEMO_ROWS : DEMO_ROWS[i] = job.keyword
    ELSE CHOOSE i \in 1..6 : KeywordAt(i) = job.keyword

\* the spreadsheet a job was imported from
SourceSheetOf(job) ==
    IF job.keyword \in Range(DEMO_ROWS) THEN "demo-sheet-id" ELSE "sheet-id"

\* the jobs of the current state: queued or held by a pipeline
JobsNow == Range(queue) \cup {tasks[i].item : i \in DOMAIN tasks}

WritebacksOnSourceRow ==
    \A i \in DOMAIN tasks :
        tasks[i].pc = "updateSheet"
            => /\ WritebackRequest(tasks[i]).spreadsheetId = SourceSheetOf(tasks[i].item)
               /\ WritebackRequest(tasks[i]).range[1] = "F"
               /\ DigitsValue(Tail(WritebackRequest(tasks[i]).range))
                     = SourceRowOf(tasks[i].item) + 1

C26_Step ==
    /\ WritebacksOnSourceRow'
    /\ \A old \in JobsNow : \A new \in JobsNow' :
          old.id = new.id => (new.rowIndex = old.rowIndex /\ new.sheetId = old.sheetId)

\* C26: the updateSheetCell call of every pipeline addresses, in the sheet
\* the job was imported from, column F of the sheet row that holds the
\* job's source row (its 1-based position in the imported range plus the
\* header row, i.e. 0-based position + 2), and no step changes the
\* rowIndex or the sheetId of a job
C26_WritebackOnSourceRow == [][C26_Step]_vars

\* the writeback of job C of a sheet whose second row has no keyword,
\* after job A has left the queue: row index 2, cell F4
C26_Witness ==
    /\ Len(lastImport.jobs) = 2
    /\ lastImport.jobs[1].keyword = "A"
    /\ Len(queue) = 1
    /\ \E i \in DOMAIN tasks :
          /\ tasks[i].pc = "updateSheet"
          /\ tasks[i].item.keyword = "C"
          /\ tasks[i].item = queue[1]
          /\ WritebackRequest(tasks[i]).range = <<"F", "4">>

\* ---------------------------------------------------------------- C27
\* the positions of the rows of the latest import that have a keyword
KeywordRows == {i \in DOMAIN lastImport.rows : lastImport.rows[i] # ""}

\* C27 as stated: the latest import made one job of each of its rows, in
\* row order
C27_OneJobPerRow ==
    lastImport.jobs # <<>>
        => /\ Len(lastImport.jobs) = Len(lastImport.rows)
           /\ \A k \in DOMAIN lastImport.jobs :
                 /\ lastImport.jobs[k].rowIndex = k - 1
                 /\ lastImport.jobs[k].keyword = lastImport.rows[k]

\* C27, amended: the latest import made one job of each of its rows that
\* has a keyword and none of the others: as many jobs as keyword rows, each
\* with the keyword of the row at its rowIndex, in increasing row order and
\* with distinct ids
C27_OneJobPerKeywordRow ==
    /\ Len(lastImport.jobs) = Cardinality(KeywordRows)
    /\ \A k \in DOMAIN lastImport.jobs :
          /\ lastImport.jobs[k].rowIndex + 1 \in KeywordRows
          /\ lastImport.jobs[k].keyword = lastImport.rows[lastImport.jobs[k].rowIndex + 1]
          /\ k > 1 => /\ lastImport.jobs[k - 1].rowIndex < lastImport.jobs[k].rowIndex
                      /\ lastImport.jobs[k - 1].id < lastImport.jobs[k].id

\* an import of three rows whose second row has no keyword: two jobs
C27_Witness ==
    /\ lastImport.rows = <<"A", "", "C">>
    /\ Len(lastImport.jobs) = 2
    /\ lastImport.jobs[2].rowIndex = 2

\* ---------------------------------------------------------------- C28
\* the candidate list a call that starts in the current state works with
KeysReadNow == getAvailableApiKeys(storedKeys, envKey)

C28_Step ==
    /\ (genPc = "idle" /\ genPc' # "idle") => genKeys' = KeysReadNow
    /\ genPc = "running"
          => /\ genKeys' = genKeys
             /\ Len(genAttempts') > Len(genAttempts)
                   => genAttempts'[Len(genAttempts')].key = genKeys[genIdx]

\* C28: every generateGuestPostContent call works with the candidate list
\* built from the keys that are stored when the call starts, so a call that
\* starts after Settings saved new keys uses them; and no step taken while
\* a call is in progress changes the call's list: each of its requests uses
\* the key at the loop index of the list read at the start
C28_KeysReadOncePerCall == [][C28_Step]_vars

\* a call in progress at its second key while the stored keys have been
\* changed: the list it works with is no longer the one a new call reads
C28_Witness ==
    /\ genPc = "running"
    /\ genIdx = 2
    /\ genKeys # KeysReadNow
    /\ KeysReadNow # <<>>

\* ---------------------------------------------------------------- C29
\* the list has no duplicate and no blank entry
CleanKeyList(keys) ==
    /\ NoDuplicates(keys)
    /\ \A i \in DOMAIN keys : Trim(keys[i]) # ""

C29_Step ==
    (settingsOpen /\ mode' = "settings")
        => /\ CleanKeyList(geminiKeys')
           /\ \/ geminiKeys' = geminiKeys
              \/ \E key \in {Trim(k) : k \in TypedKeys} \ Range(geminiKeys) :
                    key # "" /\ geminiKeys' = Append(geminiKeys, key)
              \/ \E key \in Range(geminiKeys) :
                    geminiKeys' = SelectSeq(geminiKeys, LAMBDA k : k # key)

\* C29: while Settings is open, every step leaves its key list without
\* duplicate and without blank entry, and changes it in one of two ways
\* only: a trimmed, non-blank key that is not in the list is appended at
\* the end, or all entries equal to one value are removed and the others
\* keep their order; adding a key that is present changes nothing
C29_KeyListStaysClean == [][C29_Step]_vars

\* k1 was removed from the stored list k1, k2 and added again: it is now
\* the last entry
C29_Witness ==
    /\ settingsOpen
    /\ storedKeys = <<"k1", "k2">>
    /\ geminiKeys = <<"k2", "k1">>

\* ---------------------------------------------------------------- C30
\* a /wp-admin, /wp-login.php or /wp-json suffix is left in the URL
HasWpSuffix(u) ==
    \E piece \in {WpAdmin, WpLogin, WpJson} : MatchesOf(u, piece) # {}

\* C30: the result of every cleanWpUrl call starts with a protocol, has no
\* /wp-admin, /wp-login.php or /wp-json with what follows left in it, and
\* does not end with a slash; example.com/wp-admin/ becomes
\* https://example.com
C30_CleanBaseUrl ==
    cleanUrl # NoCleanUrl
        => /\ HasProtocol(cleanUrl.clean)
           /\ ~HasWpSuffix(cleanUrl.clean)
           /\ cleanUrl.clean[Len(cleanUrl.clean)] # "/"
           /\ cleanUrl.url = <<Host, "/", WpAdmin, "/">>
                 => cleanUrl.clean = <<"https://", Host>>

\* ------------------------------------------------------------- C31
\* the headings of level n of a markdown document: the markers at the start
\* of a line
HeadingsOf(md, level) ==
    {i \in 1..Len(md) : md[i] = Marker(level) /\ AtLineStart(md, i)}

IsLink(p) == p.k = "link"

\* the links of a markdown document, text and href, in order
LinksOf(md) == SelectSeq(md, IsLink)

\* C31: a markdown document with one H1, one H2, one bold span and one link
\* that is converted with markdownToHtml and back with htmlToMarkdown has the
\* same number of headings at each level and the same link text and href.
C31_RoundTripKeepsStructure ==
    roundTrip # NoRoundTrip =>
        /\ \A level \in {"1", "2"} :
               Cardinality(HeadingsOf(roundTrip.back, level)) =
               Cardinality(HeadingsOf(roundTrip.markdown, level))
        /\ LinksOf(roundTrip.back) = LinksOf(roundTrip.markdown)


\* ------------------------------------------------------------- C32
\* the await at which the pipeline of job id is suspended, "none" without one
PcOf(ts, id) ==
    IF \E i \in DOMAIN ts : ts[i].item.id = id
    THEN ts[CHOOSE i \in DOMAIN ts : ts[i].item.id = id].pc
    ELSE "none"

\* the pipeline of job id runs with the real services
RealJob(ts, id) == \E i \in DOMAIN ts : ts[i].item.id = id /\ ~ts[i].demo

InHistory(arts, id) == \E k \in DOMAIN arts : arts[k] = id

C32_Step ==
    \A id \in 0..MaxJobs :
        RealJob(tasks, id) =>
            \* the export is requested when the generation has returned
            /\ (PcOf(tasks', id) = "upload" /\ PcOf(tasks, id) # "upload")
                   => PcOf(tasks, id) = "generate"
            \* the writeback is requested when the export has returned
            /\ (PcOf(tasks', id) = "updateSheet" /\ PcOf(tasks, id) # "updateSheet")
                   => PcOf(tasks, id) = "upload"
            \* the article is appended when the writeback has returned
            /\ (InHistory(articles', id) /\ ~InHistory(articles, id))
                   => PcOf(tasks, id) = "updateSheet" /\ id \notin failed'
            \* a failure ends the try block: no later stage, no article
            /\ id \in failed'
                   => /\ PcOf(tasks', id) \in {"cooldown", "none"}
                      /\ ~InHistory(articles', id)

\* C32: within one non-demo job the export is requested only after the
\* generation returned, the writeback only after the export returned, and the
\* article is appended to the history only after the writeback succeeded; a
\* failure at any stage skips every later stage of that job.
C32_StagesInOrder == [][C32_Step]_vars

\* one job went through the three stages into the history, another failed
C32_Witness ==
    /\ batchToken = "access-token"
    /\ \E k \in DOMAIN articles : articles[k] \notin failed
    /\ failed # {}
    /\ \E i \in DOMAIN tasks : ~tasks[i].demo /\ tasks[i].pc = "updateSheet"


\* ------------------------------------------------------------- C33
\* the pipeline of job id enters the delay(3000) of its finally block
CoolDownEntered(id) ==
    PcOf(tasks', id) = "cooldown" /\ PcOf(tasks, id) # "cooldown"

\* the pipeline of job id was started in demo mode
DemoJob(ts, id) == \E i \in DOMAIN ts : ts[i].item.id = id /\ ts[i].demo

\* a job other than id is in the queue
QueuedBehind(q, id) == \E k \in DOMAIN q : q[k].id # id

C33_Step ==
    \A id \in 0..MaxJobs :
        /\ ~QueuedBehind(queue, id) => ~CoolDownEntered(id)
        /\ DemoJob(tasks, id) => PcOf(tasks', id) # "cooldown"

\* C33: no cool-down is waited after a job that has no job queued behind it
\* when it finishes, nor after any job processed in demo mode.
C33_NoNeedlessCoolDown == [][C33_Step]_vars

\* a batch of one real job has ended, and the job that ended it was alone
C33_Witness ==
    /\ ~isDemoMode
    /\ batchToken = "access-token"
    /\ Len(lastImport.jobs) = 1
    /\ lastImport.idle
    /\ queue = <<>>
    /\ tasks = <<>>
    /\ batchProgress.processed = 1
    /\ Len(started) = 1


\* ------------------------------------------------------------- C34
\* the awaits of a pipeline at which a call to the generation provider, the
\* document store or the spreadsheet is pending
RealAwaits == {"generate", "upload", "updateSheet"}

\* the pipeline of job id makes a call to one of the real services
RealCallMade(id) ==
    PcOf(tasks', id) \in RealAwaits /\ PcOf(tasks', id) # PcOf(tasks, id)

C34_Step ==
    \A id \in 0..MaxJobs :
        /\ isDemoMode => ~RealCallMade(id)
        /\ DemoJob(tasks, id) => id \notin failed'

\* C34: while demo mode is on, the batch pipeline makes no call to the
\* generation provider, the document store or the spreadsheet; every job
\* completes with simulated content and a demo link, whatever the token.
C34_DemoMakesNoRealCall == [][C34_Step]_vars


\* ------------------------------------------------------------- C35
\* C35: in every reachable state total - processed is the number of jobs in
\* the queue (the job in flight is its head); hence processed never exceeds
\* total, and completion (processed = total > 0) is shown only when the
\* queue is empty and no job is in flight.
C35_CountersMatchQueue ==
    /\ batchProgress.total - batchProgress.processed = Len(queue)
    /\ batchProgress.processed <= batchProgress.total
    /\ isComplete(batchProgress) =>
           queue = <<>> /\ tasks = <<>> /\ ~isProcessingBatch

\* an import arrived during a batch, and a job of it is in flight after
\* another was counted
C35_Witness ==
    /\ ~lastImport.idle
    /\ batchProgress.processed >= 1
    /\ batchProgress.processed < batchProgress.total
    /\ tasks # <<>>


\* ------------------------------------------------------------- C36
\* a job that leaves the queue has had its pipeline started
C36_Step ==
    \A id \in 0..MaxJobs :
        (id \in Ids(queue) /\ id \notin Ids(queue')) => InHistory(started, id)

\* C36: every job placed in the queue eventually has its pipeline started
\* and no job leaves the queue without having been attempted, also when an
\* import arrives while a job is in flight or cooling down; once the queue
\* is empty the in-flight flag is false again.
C36_EveryJobAttempted ==
    /\ [][C36_Step]_vars
    /\ \A id \in 0..MaxJobs : (id \in Ids(queue)) ~> InHistory(started, id)
    /\ [](queue = <<>> => ~isProcessingBatch)


\* ------------------------------------------------------------- C37
\* the requests of the call that the site answered with a success status:
\* for the POST of createWpPost, the posts the site created
PostsCreated(calls) == {i \in DOMAIN calls : IsOk(calls[i])}

\* C37: one createWpPost call causes at most one post to be created: once
\* the POST was accepted by the site through some tier it is not sent again
\* through a later tier, also when the body of the success response could
\* not be read.
C37_AtMostOnePost == Cardinality(PostsCreated(wpCalls)) <= 1


\* ------------------------------------------------------------- C38
\* a handleSaveToDrive call attaches its link
LinkAttached == Len(saveTasks') < Len(saveTasks) /\ savedLinks' # savedLinks

\* C38: attaching an export link to one article never removes or reverts
\* any other article of the history, also not the articles that were
\* appended while the upload was in flight.
C38_Step ==
    LinkAttached =>
        /\ \A id \in 0..MaxJobs : InArticles(articles, id) => InArticles(articles', id)
        /\ savedLinks \subseteq savedLinks'

C38_ExportKeepsHistory == [][C38_Step]_vars


\* ------------------------------------------------------------- C39
\* the categories of a list or request that belong to a site other than site
ForeignTo(site, cats) == {i \in DOMAIN cats : cats[i].site # site}

\* C39: in the single-post publisher, once no category request is pending,
\* the category list and the selected category belong to the selected site,
\* whatever the order in which the requests completed; a post is never
\* created with a category taken from another site.
C39_CategoriesOfSelectedSite ==
    /\ catRequests = <<>> =>
           /\ ForeignTo(selectedSiteId, categories) = {}
           /\ ForeignTo(selectedSiteId, CategoriesOfPost(selectedCategoryId)) = {}
    /\ ForeignTo(catPost.site, catPost.categories) = {}


====
